---------------------------- MODULE Spec2Model ----------------------------
(***************************************************************************)
(* A model of WellActually's core: the suppression ledger and the AST      *)
(* hashing cache (cores/persistence), the structural graph store with its  *)
(* scan / incremental update and queries (cores/structure), and the SRP    *)
(* rule with its composite scorer (cores/analysis).                        *)
(*                                                                         *)
(* Each part has its own specification (SpecHash, SpecLedger, ...); the    *)
(* variables of the other parts stay at their initial value there.         *)
(***************************************************************************)
EXTENDS Integers, Sequences, FiniteSets, TLC

VARIABLES
    \* ---- persistence/cache.py: two snippets and their digests
    codeA, codeB, hashA, hashB,
    \* ---- persistence/lance_manager.py: the two LanceDB tables
    violations, ignores,
    \* ---- structure: the project's files on disk, the Kuzu graph, how the
    \* last facade call ended, and the rows of the last cycle query
    fs, graph, outcome, cycles,
    \* ---- analysis/rules: a type under analysis, what SRPRule.analyze
    \* reported for it, and the score the SRP scorers gave it
    srpClass, srpReported, srpScore, srpSemantic,
    \* ---- analysis/rules/base.py: a threshold rule, the context it is given
    \* and what ThresholdRule.analyze reported
    thrRule, thrContext, thrReported,
    \* ---- structure/scanner.py, scan_project step by step: where the scan
    \* is, the files it parses, the workers still parsing, their results, and
    \* the index of the next result to insert
    scanPc, scanFiles, scanRunning, scanResults, scanCursor,
    \* ---- io/watcher.py, DebouncedHandler: whether on_modified is called on
    \* the thread of the running event loop, the events so far, pending_files,
    \* the _schedule_processing tasks created and not yet run, the
    \* _process_after_delay tasks (self.task is the last), the accepted events
    \* per path not yet followed by a callback, the last batch delivered, and
    \* whether on_modified has raised
    wOnLoop, wEvents, pending_files, wCreated, wTasks, wAccepted, wBatch, wRaised

hashVars   == <<codeA, codeB, hashA, hashB>>
ledgerVars == <<violations, ignores>>
graphVars  == <<fs, graph, outcome, cycles>>
srpVars    == <<srpClass, srpReported, srpScore, srpSemantic>>
thrVars    == <<thrRule, thrContext, thrReported>>
scanVars   == <<scanPc, scanFiles, scanRunning, scanResults, scanCursor>>
watchVars  == <<wOnLoop, wEvents, pending_files, wCreated, wTasks, wAccepted, wBatch, wRaised>>
vars       == <<hashVars, ledgerVars, graphVars, srpVars, thrVars, scanVars, watchVars>>

(***************************************************************************)
(* Python syntax trees (module ast).  A node is [t, s, kids]: its class,   *)
(* its one string field (Name.id, arg.arg, Attribute.attr, FunctionDef     *)
(* name, Constant.value) and its child nodes in field order.  The          *)
(* expression context (Load/Store) is fixed by the position of a Name and  *)
(* is left out.  Positions (lineno, col_offset) are attributes, which      *)
(* ast.dump does not print; they are what `fmt` of a snippet stands for.   *)
(***************************************************************************)
Node(t, s, kids) == [t |-> t, s |-> s, kids |-> kids]

Name(id)              == Node("Name", id, <<>>)
Arg(a)                == Node("arg", a, <<>>)
Constant(v)           == Node("Constant", v, <<>>)
Attribute(value, a)   == Node("Attribute", a, <<value>>)
Call(func, args)      == Node("Call", "", <<func>> \o args)
Expr(value)           == Node("Expr", "", <<value>>)
Assign(target, value) == Node("Assign", "", <<target, value>>)
Return(value)         == Node("Return", "", <<value>>)
If(test, body)        == Node("If", "", <<test>> \o body)
For(target, iter, body) == Node("For", "", <<target, iter>> \o body)
Arguments(args)       == Node("arguments", "", args)
FunctionDef(name, args, body) == Node("FunctionDef", name, <<Arguments(args)>> \o body)
Module(body)          == Node("Module", "", body)
Pass                  == Node("Pass", "", <<>>)

\* The snippets the model hashes: every combination of
\*   doc     a docstring statement ("" for none)
\*   param   the name of the function's parameter
\*   local   the names of the assigned variable and of the loop variable
\*   style   the call is a bare name f(v) or an attribute client.f(v)
\*   callee  the name of the called function
\*   flow    the call stands alone, under an if, or in a for loop
Docs       == {"", "Handle a request."}
NoDoc      == ""
ParamNames == {"x", "y"}
LocalNames == {<<"result", "item">>, <<"out", "elem">>}
CallStyles == {"bare", "attribute"}
Callees    == {"send", "save"}
Flows      == {"plain", "if", "for"}
Formats    == {"compact", "spaced"}

CallStmt(style, callee, v) ==
    Expr(Call(IF style = "bare" THEN Name(callee) ELSE Attribute(Name("client"), callee),
              <<Name(v)>>))

FlowStmt(flow, style, callee, local) ==
    CASE flow = "plain" -> CallStmt(style, callee, local[1])
      [] flow = "if"    -> If(Name(local[1]), <<CallStmt(style, callee, local[1])>>)
      [] flow = "for"   -> For(Name(local[2]), Name(local[1]),
                               <<CallStmt(style, callee, local[2])>>)

SnippetTree(doc, param, local, style, callee, flow) ==
    Module(<<FunctionDef("handler", <<Arg(param)>>,
        (IF doc = "" THEN <<>> ELSE <<Expr(Constant(doc))>>)
        \o <<Assign(Name(local[1]), Call(Name("fetch"), <<Name(param)>>)),
             FlowStmt(flow, style, callee, local),
             Return(Name(local[1]))>>)>>)

\* A snippet: its text stands as (formatting, tree); ok says whether ast.parse
\* accepts it.
Snippet(fmt, doc, param, local, style, callee, flow) ==
    [ok |-> TRUE, fmt |-> fmt, doc |-> doc, param |-> param, local |-> local,
     style |-> style, callee |-> callee, flow |-> flow]

Snippets ==
    { Snippet(f, NoDoc, p, l, s, c, w) :
        f \in Formats, p \in ParamNames, l \in LocalNames,
        s \in CallStyles, c \in Callees, w \in Flows }

\* The same function with a docstring.
DocumentedSnippets ==
    { Snippet("compact", d, "x", <<"result", "item">>, "attribute", "send", "plain") :
        d \in Docs \ {NoDoc} }

\* A text ast.parse rejects (SyntaxError): an unfinished def.
BrokenSnippet ==
    [ok |-> FALSE, fmt |-> "compact", doc |-> "", param |-> "x",
     local |-> <<"result", "item">>, style |-> "bare", callee |-> "send",
     flow |-> "broken"]

\* ast.parse(code): the tree of a snippet that parses; formatting is gone.
AstParse(code) ==
    SnippetTree(code.doc, code.param, code.local, code.style, code.callee, code.flow)

\* code.encode(): the raw text, as the tokens that tell two texts apart.
RawText(code) ==
    <<code.fmt, code.doc, code.param, code.local[1], code.local[2],
      code.style, code.callee, code.flow>>

IsDocstringExpr(n) ==
    /\ n.t = "Expr"
    /\ n.kids[1].t = "Constant"

\* CacheManager._normalize_ast, the tree it leaves behind.  The method renames
\* a Name in place, returns a fresh Pass for a string-literal statement without
\* touching the tree, and otherwise recurses into the children, dropping what
\* the recursive calls return.
RECURSIVE normalize_ast_in_place(_)
normalize_ast_in_place(n) ==
    IF n.t = "Name" THEN [n EXCEPT !.s = "VAR"]
    ELSE IF IsDocstringExpr(n) THEN n
    ELSE [n EXCEPT !.kids = [i \in 1..Len(n.kids) |-> normalize_ast_in_place(n.kids[i])]]

\* CacheManager._normalize_ast, the value it returns.
normalize_ast(n) ==
    IF n.t # "Name" /\ n.t # "FunctionDef" /\ IsDocstringExpr(n)
    THEN Pass
    ELSE normalize_ast_in_place(n)

\* ast.dump(node, annotate_fields=False): class name, the fields in order,
\* no attributes.
RECURSIVE AstDump(_)
AstDump(n) ==
    LET kidsDump[i \in 0..Len(n.kids)] ==
            IF i = 0 THEN <<>> ELSE kidsDump[i - 1] \o AstDump(n.kids[i])
    IN  <<n.t, "(", n.s>> \o kidsDump[Len(n.kids)] \o <<")">>

\* hashlib.sha256(text).hexdigest(), taken to be injective: the digest is the
\* hashed text, tagged with what was hashed.
Sha256(text) == <<"sha256">> \o text

\* CacheManager.normalize_and_hash
normalize_and_hash(code) ==
    IF code.ok
    THEN Sha256(AstDump(normalize_ast(AstParse(code))))
    ELSE Sha256(RawText(code))

NoDigest == <<>>

(***************************************************************************)
(* SpecHash: normalize_and_hash applied to two snippets.                   *)
(***************************************************************************)
InitHashVars ==
    /\ codeA \in Snippets \cup DocumentedSnippets \cup {BrokenSnippet}
    /\ codeB \in Snippets \cup DocumentedSnippets \cup {BrokenSnippet}
    /\ hashA = NoDigest
    /\ hashB = NoDigest

HashA ==
    /\ hashA = NoDigest
    /\ hashA' = normalize_and_hash(codeA)
    /\ UNCHANGED <<codeA, codeB, hashB, ledgerVars, graphVars, srpVars, thrVars, scanVars, watchVars>>

HashB ==
    /\ hashB = NoDigest
    /\ hashB' = normalize_and_hash(codeB)
    /\ UNCHANGED <<codeA, codeB, hashA, ledgerVars, graphVars, srpVars, thrVars, scanVars, watchVars>>

(***************************************************************************)
(* The ledger: LanceDB tables "violations" and "ignores", rows in the      *)
(* order they were added.  A uuid4 id is the next unused number of its     *)
(* table, and datetime.now the same number.                                *)
(***************************************************************************)
MaxViolations == 2
MaxIgnores    == 2

\* The code snippets the ledger is called with: one shape written twice (other
\* local names, other formatting) and a second shape.
CodeSend      == Snippet("compact", "", "x", <<"result", "item">>, "attribute", "send", "plain")
CodeSendAgain == Snippet("spaced", "", "x", <<"out", "elem">>, "attribute", "send", "plain")
CodeSave      == Snippet("compact", "", "x", <<"result", "item">>, "attribute", "save", "plain")
LedgerCodes   == {CodeSend, CodeSendAgain, CodeSave}

\* normalize_and_hash of each of them (the function is pure: computed once).
SnippetHash == [code \in LedgerCodes |-> normalize_and_hash(code)]

NoViolationId == 0

\* uuid.uuid4(): an id no row of the table has.
uuid4(table) == Len(table) + 1

InitLedgerVars ==
    /\ violations = <<>>
    /\ ignores = <<>>

\* A variant that keeps one row per snippet_hash (a merge on the hash).
add_violation_by_hash(table, violation) ==
    IF \E i \in 1..Len(table) : table[i].snippet_hash = violation.snippet_hash
    THEN [i \in 1..Len(table) |->
            IF table[i].snippet_hash = violation.snippet_hash THEN violation
            ELSE table[i]]
    ELSE Append(table, violation)

\* LanceManager.add_violation: table.add, one more row.
add_violation(table, violation) == Append(table, violation)

\* LanceManager._mark_violation_ignored: update where id = violation_id.
mark_violation_ignored(table, violation_id) ==
    [i \in 1..Len(table) |->
        IF table[i].id = violation_id THEN [table[i] EXCEPT !.ignored = TRUE]
        ELSE table[i]]

\* LanceManager.add_ignore, the ignores table: table.add, one more row.
add_ignore(table, ignore) == Append(table, ignore)

\* A variant that stops at the first matching row (a LIMIT 1 on the update).
invalidate_ignore_first_match(table, snippet_hash, reason) ==
    LET matching == {i \in 1..Len(table) :
                        table[i].snippet_hash = snippet_hash /\ ~table[i].invalidated}
    IN  [i \in 1..Len(table) |->
            IF i \in matching /\ (\A j \in matching : i <= j)
            THEN [table[i] EXCEPT !.invalidated = TRUE, !.invalidation_reason = reason]
            ELSE table[i]]

\* A variant that flips the flag of every row with the hash (no
\* "AND invalidated = false", and the flag negated).
invalidate_ignore_toggle(table, snippet_hash, reason) ==
    [i \in 1..Len(table) |->
        IF table[i].snippet_hash = snippet_hash
        THEN [table[i] EXCEPT !.invalidated = ~table[i].invalidated,
                              !.invalidation_reason = reason]
        ELSE table[i]]

\* LanceManager.invalidate_ignore: update where snippet_hash = h AND
\* invalidated = false.
invalidate_ignore(table, snippet_hash, reason) ==
    [i \in 1..Len(table) |->
        IF table[i].snippet_hash = snippet_hash /\ ~table[i].invalidated
        THEN [table[i] EXCEPT !.invalidated = TRUE, !.invalidation_reason = reason]
        ELSE table[i]]

\* Python's None, for a method that returns a row or None
None == [none |-> TRUE]

\* .limit(n).to_list(): the first n rows of the search, in the table's order
Limit(rows, n) == SubSeq(rows, 1, IF Len(rows) < n THEN Len(rows) ELSE n)

\* LanceManager.get_violation_by_hash:
\*   search().where("snippet_hash = h").limit(1), the row found or None
get_violation_by_hash(table, snippet_hash) ==
    LET where(row) == row.snippet_hash = snippet_hash
        results == Limit(SelectSeq(table, where), 1)
    IN  IF results # <<>> THEN results[1] ELSE None

\* The same search without "AND invalidated = false".
check_ignore_status_any(table, snippet_hash) ==
    LET where(row) == row.snippet_hash = snippet_hash
        results == Limit(SelectSeq(table, where), 1)
    IN  IF results # <<>> THEN results[1] ELSE None

\* LanceManager.check_ignore_status:
\*   search().where("snippet_hash = h AND invalidated = false").limit(1),
\*   the row found or None
check_ignore_status(table, snippet_hash) ==
    LET where(row) == row.snippet_hash = snippet_hash /\ row.invalidated = FALSE
        results == Limit(SelectSeq(table, where), 1)
    IN  IF results # <<>> THEN results[1] ELSE None

\* CacheManager.get_cached_violation
get_cached_violation(code) == get_violation_by_hash(violations, SnippetHash[code])

\* CacheManager.is_ignored
is_ignored(code) == check_ignore_status(ignores, SnippetHash[code]) # None

\* PersistenceFacade.store_violation
store_violation(code, severity) ==
    /\ Len(violations) < MaxViolations
    /\ violations' = add_violation(violations,
            [id |-> uuid4(violations), file_path |-> "app/handlers.py", violation_type |-> "SRP",
             severity |-> severity, snippet |-> code,
             snippet_hash |-> SnippetHash[code],
             timestamp |-> uuid4(violations), ignored |-> FALSE])
    /\ UNCHANGED ignores

\* PersistenceFacade.ignore_violation
ignore_violation(violation_id, code, reason) ==
    /\ Len(ignores) < MaxIgnores
    /\ ignores' = add_ignore(ignores,
            [id |-> uuid4(ignores), violation_id |-> violation_id,
             snippet_hash |-> SnippetHash[code], reason |-> reason,
             timestamp |-> uuid4(ignores), invalidated |-> FALSE,
             invalidation_reason |-> "None"])
    /\ violations' = mark_violation_ignored(violations, violation_id)

\* A variant without the comparison of the two hashes.
invalidate_if_changed_unconditional(old_code, new_code) ==
    /\ ignores' = invalidate_ignore(ignores, SnippetHash[old_code], "Code structure changed")
    /\ UNCHANGED violations

\* CacheManager.invalidate_if_changed
invalidate_if_changed(old_code, new_code) ==
    LET old_hash == SnippetHash[old_code]
        new_hash == SnippetHash[new_code]
    IN  /\ ignores' = IF old_hash # new_hash
                      THEN invalidate_ignore(ignores, old_hash, "Code structure changed")
                      ELSE ignores
        /\ UNCHANGED violations

StoreViolation ==
    /\ \E code \in LedgerCodes, severity \in {"high"} :
            store_violation(code, severity)
    /\ UNCHANGED <<hashVars, graphVars, srpVars, thrVars, scanVars, watchVars>>

IgnoreViolation ==
    /\ \E violation_id \in {violations[i].id : i \in 1..Len(violations)} \cup {NoViolationId},
          code \in LedgerCodes :
            ignore_violation(violation_id, code, "accepted for now")
    /\ UNCHANGED <<hashVars, graphVars, srpVars, thrVars, scanVars, watchVars>>

InvalidateIfChanged ==
    /\ \E old_code \in LedgerCodes, new_code \in LedgerCodes :
            invalidate_if_changed(old_code, new_code)
    /\ UNCHANGED <<hashVars, graphVars, srpVars, thrVars, scanVars, watchVars>>

(***************************************************************************)
(* Source files and the Tree-sitter parser (structure/parsers).            *)
(*                                                                         *)
(* A file's content stands as its concrete syntax tree.  A node is         *)
(* [type, text, line, end_line, children]: text is what                    *)
(* content[start_byte:end_byte] of the node reads, line and end_line are   *)
(* start_point[0] + 1 and end_point[0] + 1.                                *)
(***************************************************************************)
TsNode(type, text, line, end_line, children) ==
    [type |-> type, text |-> text, line |-> line, end_line |-> end_line,
     children |-> children]

TsLeaf(type, text, line) == TsNode(type, text, line, line, <<>>)

\* "import m"
TsImport(module, line) ==
    TsNode("import_statement", "", line, line,
           <<TsLeaf("import", "import", line), TsLeaf("dotted_name", module, line)>>)

\* "def name(self):" and a one-line body
TsFunction(name, line) ==
    TsNode("function_definition", "", line, line + 1,
           <<TsLeaf("def", "def", line), TsLeaf("identifier", name, line),
             TsLeaf("parameters", "(self)", line), TsLeaf(":", ":", line),
             TsNode("block", "", line + 1, line + 1,
                    <<TsLeaf("pass_statement", "pass", line + 1)>>)>>)

\* "class name:" with the given methods, or with "pass" when there is none.
\* The methods are children of the class's block, not of the class.
TsClass(name, methods, line) ==
    LET last == IF methods = <<>> THEN line + 1 ELSE line + 2 * Len(methods)
        body == IF methods = <<>>
                THEN <<TsLeaf("pass_statement", "pass", line + 1)>>
                ELSE [i \in 1..Len(methods) |-> TsFunction(methods[i], line + 2 * i - 1)]
    IN  TsNode("class_definition", "", line, last,
               <<TsLeaf("class", "class", line), TsLeaf("identifier", name, line),
                 TsLeaf(":", ":", line), TsNode("block", "", line + 1, last, body)>>)

ClassLines(c) == IF c.methods = <<>> THEN 2 ELSE 1 + 2 * Len(c.methods)

\* The text of a module: its imports, one a line, then its classes.
\* classes is a sequence of [name, methods].
RECURSIVE TsClasses(_, _)
TsClasses(classes, line) ==
    IF classes = <<>> THEN <<>>
    ELSE <<TsClass(Head(classes).name, Head(classes).methods, line)>>
         \o TsClasses(Tail(classes), line + ClassLines(Head(classes)))

RECURSIVE SumLines(_)
SumLines(classes) ==
    IF classes = <<>> THEN 0 ELSE ClassLines(Head(classes)) + SumLines(Tail(classes))

Source(modules, classes) ==
    TsNode("module", "", 1, Len(modules) + SumLines(classes),
           [i \in 1..Len(modules) |-> TsImport(modules[i], i)]
           \o TsClasses(classes, Len(modules) + 1))

\* node.child_by_field_name("name"): the identifier child, if any.
HasNameChild(node) == \E i \in 1..Len(node.children) : node.children[i].type = "identifier"
NameChild(node) ==
    node.children[CHOOSE i \in 1..Len(node.children) : node.children[i].type = "identifier"]

\* What a Tree-sitter Node attribute holds: a byte offset or a (row, column) point.
NodeAttrKind ==
    [start_byte |-> "int", end_byte |-> "int", start_point |-> "point", end_point |-> "point"]

\* content[lo:hi] for the node spanning lo..hi: its text, or a TypeError when
\* a bound is not an integer.
SliceContent(node, lo, hi) ==
    IF NodeAttrKind[lo] = "int" /\ NodeAttrKind[hi] = "int"
    THEN [raised |-> FALSE, text |-> node.text]
    ELSE [raised |-> TRUE, text |-> "TypeError"]

NoParent == "None"

\* PythonParser._is_abstract_class: no class of these files has superclasses
\* or decorators.
is_abstract_class(class_node) ==
    \E i \in 1..Len(class_node.children) :
        /\ class_node.children[i].type = "argument_list"
        /\ class_node.children[i].text = "(ABC)"

\* sum(1 for child in node.children if child.type == "function_definition")
CountFunctionChildren(node) ==
    Cardinality({i \in 1..Len(node.children) :
                    node.children[i].type = "function_definition"})

\* PythonParser.calculate_complexity: 1 + the decision nodes under the node.
DecisionNodes ==
    {"if_statement", "for_statement", "while_statement", "except_clause", "boolean_operator"}

RECURSIVE count_decisions(_)
count_decisions(node) ==
    LET below[i \in 0..Len(node.children)] ==
            IF i = 0 THEN 0 ELSE below[i - 1] + count_decisions(node.children[i])
    IN  (IF node.type \in DecisionNodes THEN 1 ELSE 0) + below[Len(node.children)]

calculate_complexity(node) == 1 + count_decisions(node)

\* PythonParser._extract_classed_and_functions: the classes and functions
\* appended by the visit of node, and whether the visit raised.
EmptyExtract == [raised |-> FALSE, classes |-> <<>>, functions |-> <<>>]

ExtractThen(first, second) ==
    IF first.raised THEN first
    ELSE [raised |-> second.raised,
          classes |-> first.classes \o second.classes,
          functions |-> first.functions \o second.functions]

RECURSIVE extract_classed_and_functions(_, _, _)
extract_classed_and_functions(node, file_path, parent_class) ==
    LET visit_children(parent) ==
            LET upto[i \in 0..Len(node.children)] ==
                    IF i = 0 THEN EmptyExtract
                    ELSE IF upto[i - 1].raised THEN upto[i - 1]
                    ELSE ExtractThen(upto[i - 1],
                            extract_classed_and_functions(node.children[i], file_path, parent))
            IN  upto[Len(node.children)]
    IN  IF node.type = "class_definition" THEN
            IF HasNameChild(node) THEN
                LET class_name == SliceContent(NameChild(node), "start_byte", "end_byte")
                IN  ExtractThen(
                        [raised |-> class_name.raised,
                         classes |-> <<[name |-> class_name.text,
                                        file_path |-> file_path,
                                        start_line |-> node.line,
                                        end_line |-> node.end_line,
                                        is_abstract |-> is_abstract_class(node),
                                        method_count |-> CountFunctionChildren(node)]>>,
                         functions |-> <<>>],
                        visit_children(class_name.text))
            ELSE EmptyExtract
        ELSE IF node.type = "function_definition" THEN
            IF HasNameChild(node) THEN
                LET func_name == SliceContent(NameChild(node), "start_byte", "end_point")
                IN  [raised |-> func_name.raised,
                     classes |-> <<>>,
                     functions |-> IF func_name.raised THEN <<>>
                                   ELSE <<[name |-> func_name.text,
                                           file_path |-> file_path,
                                           start_line |-> node.line,
                                           end_line |-> node.end_line,
                                           complexity |-> calculate_complexity(node),
                                           parent_class |-> parent_class]>>]
            ELSE EmptyExtract
        ELSE visit_children(parent_class)

\* len([line for line in content.split("\n") if line.strip() and not comment])
LinesOfCode(content) == content.end_line

\* PythonParser.parse_file
parse_file(file_path, content) ==
    LET found == extract_classed_and_functions(content, file_path, NoParent)
    IN  [raised |-> found.raised,
         file_node |-> [path |-> file_path, language |-> "python",
                        lines_of_code |-> LinesOfCode(content)],
         classes |-> found.classes,
         functions |-> found.functions]

\* PythonParser.get_imports: (module_path, imported_names) of every
\* "import m" at the top of the file.
get_imports(content) ==
    LET dotted(node) == {j \in 1..Len(node.children) : node.children[j].type = "dotted_name"}
        upto[i \in 0..Len(content.children)] ==
            IF i = 0 THEN <<>>
            ELSE IF content.children[i].type = "import_statement"
            THEN LET node == content.children[i]
                     names == [j \in 1..Len(node.children) |-> node.children[j].text]
                 IN  upto[i - 1] \o
                     [k \in 1..Cardinality(dotted(node)) |->
                        LET j == CHOOSE j \in dotted(node) :
                                    Cardinality({x \in dotted(node) : x < j}) = k - 1
                        IN  [module_path |-> names[j], imported_names |-> <<names[j]>>]]
            ELSE upto[i - 1]
    IN  upto[Len(content.children)]

(***************************************************************************)
(* The Kuzu graph (structure/graph).  Node tables are keyed by their       *)
(* primary key: files by path, classes and functions by id, the pair       *)
(* (file_path, name) that f"{file_path}::{name}" joins.  IMPORTS edges     *)
(* carry imported_names; DEFINES and CONTAINS edges carry nothing.  The    *)
(* tables of SCHEMA_DDL are taken to exist.                                *)
(***************************************************************************)
EmptyGraph ==
    [files |-> <<>>, classes |-> <<>>, functions |-> <<>>,
     imports |-> <<>>, defines |-> {}, contains |-> {}]

\* The properties of the Function node table (SCHEMA_DDL).
FunctionTableProperties ==
    {"id", "name", "file_path", "start_line", "end_line", "complexity", "parent_class"}

\* The properties the SET clause of add_function assigns.
AddFunctionSetProperties ==
    {"name", "file_path", "start_line", "end", "complexity", "parent_class"}

\* Kuzu binds a statement before it runs it: a property that the node table
\* does not have is a binder error, and nothing is executed.
BindsProperties(assigned, table) == assigned \subseteq table

\* Kuzu prepares the statement and then binds the parameters it is given: a
\* parameter the statement does not name (and one it names that is missing)
\* is an error, and nothing is executed.
BindsParameters(named, given) == named = given

Restrict(f, keys) == [k \in keys |-> f[k]]
Upsert(f, k, v) == (k :> v) @@ f

class_id(file_path, name) == <<file_path, name>>

\* KuzuManager.add_file: MERGE the File node, SET its properties.
add_file(g, file_node) ==
    [g EXCEPT !.files = Upsert(g.files, file_node.path,
        [language |-> file_node.language, lines_of_code |-> file_node.lines_of_code])]

\* KuzuManager.add_class: MERGE the Class node, SET its properties, then
\* MERGE the DEFINES edge from its File node when that node is matched.
add_class(g, class_node) ==
    LET id == class_id(class_node.file_path, class_node.name)
    IN  [g EXCEPT
            !.classes = Upsert(g.classes, id,
                [name |-> class_node.name, file_path |-> class_node.file_path,
                 start_line |-> class_node.start_line, end_line |-> class_node.end_line,
                 is_abstract |-> class_node.is_abstract,
                 method_count |-> class_node.method_count]),
            !.defines = IF class_node.file_path \in DOMAIN g.files
                        THEN g.defines \cup {<<class_node.file_path, id>>}
                        ELSE g.defines]

\* KuzuManager.add_function: MERGE the Function node, SET its properties, then
\* MERGE the CONTAINS edge from its class when it has one and it is matched.
add_function(g, function_node) ==
    LET id == class_id(function_node.file_path, function_node.name)
        parent == class_id(function_node.file_path, function_node.parent_class)
        merged == [g EXCEPT !.functions = Upsert(g.functions, id,
                    [name |-> function_node.name, file_path |-> function_node.file_path,
                     start_line |-> function_node.start_line,
                     end_line |-> function_node.end_line,
                     complexity |-> function_node.complexity,
                     parent_class |-> IF function_node.parent_class = NoParent THEN ""
                                      ELSE function_node.parent_class])]
    IN  IF ~BindsProperties(AddFunctionSetProperties, FunctionTableProperties)
        THEN [raised |-> TRUE, graph |-> g]
        ELSE [raised |-> FALSE,
              graph |-> IF function_node.parent_class # NoParent /\ parent \in DOMAIN g.classes
                        THEN [merged EXCEPT !.contains = merged.contains \cup {<<parent, id>>}]
                        ELSE merged]

\* A variant that adds the names to those the edge has
\* (SET i.imported_names = i.imported_names + $imported_names).
add_import_appending(g, from_file, to_module, imported_names) ==
    IF from_file \in DOMAIN g.files /\ to_module \in DOMAIN g.files
    THEN [g EXCEPT !.imports = Upsert(g.imports, <<from_file, to_module>>,
            (IF <<from_file, to_module>> \in DOMAIN g.imports
             THEN g.imports[<<from_file, to_module>>] ELSE <<>>) \o imported_names)]
    ELSE g

\* KuzuManager.add_import: MATCH both File nodes, MERGE the IMPORTS edge, SET
\* its imported_names.
add_import(g, from_file, to_module, imported_names) ==
    IF from_file \in DOMAIN g.files /\ to_module \in DOMAIN g.files
    THEN [g EXCEPT !.imports = Upsert(g.imports, <<from_file, to_module>>, imported_names)]
    ELSE g

\* MATCH (c:Class {file_path: $path}) DETACH DELETE c
DetachDeleteClasses(g, path) ==
    LET gone == {id \in DOMAIN g.classes : g.classes[id].file_path = path}
    IN  [g EXCEPT !.classes = Restrict(g.classes, DOMAIN g.classes \ gone),
                  !.defines = {e \in g.defines : e[2] \notin gone},
                  !.contains = {e \in g.contains : e[1] \notin gone}]

\* MATCH (fn:Function {file_path: $path}) DETACH DELETE fn
DetachDeleteFunctions(g, path) ==
    LET gone == {id \in DOMAIN g.functions : g.functions[id].file_path = path}
    IN  [g EXCEPT !.functions = Restrict(g.functions, DOMAIN g.functions \ gone),
                  !.contains = {e \in g.contains : e[2] \notin gone}]

\* MATCH (f:File {path: $path}) DETACH DELETE f
DetachDeleteFile(g, path) ==
    [g EXCEPT !.files = Restrict(g.files, DOMAIN g.files \ {path}),
              !.imports = Restrict(g.imports,
                    {e \in DOMAIN g.imports : e[1] # path /\ e[2] # path}),
              !.defines = {e \in g.defines : e[1] # path}]

\* KuzuManager.delete_file: three statements, each committed on its own.  The
\* third names $path and is given {"file": file_path}.
delete_file(g, file_path) ==
    LET classes_gone == DetachDeleteClasses(g, file_path)
        functions_gone == DetachDeleteFunctions(classes_gone, file_path)
    IN  IF BindsParameters({"path"}, {"file"})
        THEN [raised |-> FALSE, graph |-> DetachDeleteFile(functions_gone, file_path)]
        ELSE [raised |-> TRUE, graph |-> functions_gone]

(***************************************************************************)
(* The project on disk, the scanner and the facade (structure/scanner.py,  *)
(* structure/facade.py).                                                   *)
(***************************************************************************)
ProjectFiles == {"a.py", "b.py", "notes.txt"}
Suffix       == [p \in ProjectFiles |-> IF p = "notes.txt" THEN ".txt" ELSE ".py"]

\* Scanner._resolve_import, the candidate: project_root / parts[:-1] / parts[-1].py
ModuleFile == [m \in {"a", "b", "os"} |-> CASE m = "a" -> "a.py" [] m = "b" -> "b.py"
                                                [] m = "os" -> "os.py"]

NoFile == TsLeaf("absent", "", 0)

ClassOf(name, methods) == [name |-> name, methods |-> methods]

\* What each file may hold.  a.py: a class; the same with one more import and
\* one more class; the class with a method; two classes with a method of one
\* name.  b.py: a class, with and without an import of a.
FileContents ==
    [p \in ProjectFiles |->
        CASE p = "a.py" ->
                {Source(<<"b">>, <<ClassOf("Service", <<>>)>>),
                 Source(<<"b", "os">>, <<ClassOf("Service", <<>>), ClassOf("Helper", <<>>)>>),
                 Source(<<"b">>, <<ClassOf("Service", <<"run">>)>>),
                 Source(<<"b">>, <<ClassOf("Service", <<"run">>), ClassOf("Helper", <<"run">>)>>)}
          [] p = "b.py" ->
                {Source(<<"a">>, <<ClassOf("Repo", <<>>)>>),
                 Source(<<>>, <<ClassOf("Repo", <<>>)>>)}
          [] p = "notes.txt" ->
                {Source(<<>>, <<>>)}]

Exists(files, p) == p \in DOMAIN files /\ files[p] # NoFile

\* StructureFacade.parsers / GenesisScanner.parsers: the registered suffixes.
RegisteredSuffixes == {".py"}

\* GenesisScanner._resolve_import
resolve_import(files, module_path) ==
    IF Exists(files, ModuleFile[module_path]) THEN ModuleFile[module_path] ELSE "None"

\* GenesisScanner._parse_file_worker: the result, or None when anything raised.
ParseFailed == [failed |-> TRUE]

\* A worker that, when parsing raised, returns the file with nothing in it
\* and not None.
parse_file_worker_partial(files, file_path) ==
    IF Suffix[file_path] # ".py" THEN ParseFailed
    ELSE LET parsed == parse_file(file_path, files[file_path])
         IN  [failed |-> FALSE,
              file_node |-> [path |-> file_path, language |-> "python", lines_of_code |-> 0],
              classes |-> IF parsed.raised THEN <<>> ELSE parsed.classes,
              functions |-> IF parsed.raised THEN <<>> ELSE parsed.functions,
              imports |-> get_imports(files[file_path])]

parse_file_worker(files, file_path) ==
    IF Suffix[file_path] # ".py" THEN ParseFailed
    ELSE LET parsed == parse_file(file_path, files[file_path])
         IN  IF parsed.raised THEN ParseFailed
             ELSE [failed |-> FALSE, file_node |-> parsed.file_node,
                   classes |-> parsed.classes, functions |-> parsed.functions,
                   imports |-> get_imports(files[file_path])]

\* for class_node in classes: self.kuzu.add_class(class_node)
RECURSIVE AddClasses(_, _)
AddClasses(g, classes) ==
    IF classes = <<>> THEN g
    ELSE AddClasses(add_class(g, Head(classes)), Tail(classes))

\* for func_node in functions: self.kuzu.add_function(func_node)
RECURSIVE AddFunctions(_, _)
AddFunctions(g, functions) ==
    IF functions = <<>> THEN [raised |-> FALSE, graph |-> g]
    ELSE LET added == add_function(g, Head(functions))
         IN  IF added.raised THEN added
             ELSE AddFunctions(added.graph, Tail(functions))

\* for module_path, imported_names in imports: resolve, add_import if resolved
RECURSIVE AddImports(_, _, _, _)
AddImports(g, files, from_file, imports) ==
    IF imports = <<>> THEN g
    ELSE LET resolved_path == resolve_import(files, Head(imports).module_path)
         IN  AddImports(IF resolved_path # "None"
                        THEN add_import(g, from_file, resolved_path,
                                        Head(imports).imported_names)
                        ELSE g,
                        files, from_file, Tail(imports))

\* GenesisScanner.scan_project, the loop over the results.
RECURSIVE InsertResults(_, _, _)
InsertResults(g, files, results) ==
    IF results = <<>> THEN [raised |-> FALSE, graph |-> g]
    ELSE LET result == Head(results)
         IN  IF result.failed THEN InsertResults(g, files, Tail(results))
             ELSE LET with_classes ==
                          AddClasses(add_file(g, result.file_node), result.classes)
                      with_functions == AddFunctions(with_classes, result.functions)
                  IN  IF with_functions.raised THEN with_functions
                      ELSE InsertResults(
                              AddImports(with_functions.graph, files,
                                         result.file_node.path, result.imports),
                              files, Tail(results))

\* GenesisScanner.scan_project for the files in the order _find_files lists them.
scan_project(g, files, files_to_parse) ==
    InsertResults(g, files,
        [i \in 1..Len(files_to_parse) |-> parse_file_worker(files, files_to_parse[i])])

\* GenesisScanner._find_files: the files with a wanted extension, in any order.
Orderings(S) ==
    {order \in [1..Cardinality(S) -> S] :
        \A i, j \in 1..Cardinality(S) : i # j => order[i] # order[j]}

find_files(files) ==
    Orderings({p \in ProjectFiles : Exists(files, p) /\ Suffix[p] = ".py"})

\* StructureFacade.update_file: the graph it leaves and how it ends
\* ("returned", "raised" to the caller, or "printed" by the except clause).
update_file(g, files, file_path) ==
    IF ~Exists(files, file_path) THEN
        LET deleted == delete_file(g, file_path)
        IN  [graph |-> deleted.graph,
             outcome |-> IF deleted.raised THEN "raised" ELSE "returned"]
    ELSE IF Suffix[file_path] \notin RegisteredSuffixes THEN
        [graph |-> g, outcome |-> "returned"]
    ELSE
        LET deleted == delete_file(g, file_path)
            parsed == parse_file(file_path, files[file_path])
            with_classes == AddClasses(add_file(deleted.graph, parsed.file_node),
                                       parsed.classes)
            with_functions == AddFunctions(with_classes, parsed.functions)
        IN  IF deleted.raised THEN [graph |-> deleted.graph, outcome |-> "printed"]
            ELSE IF parsed.raised THEN [graph |-> deleted.graph, outcome |-> "printed"]
            ELSE IF with_functions.raised
                 THEN [graph |-> with_functions.graph, outcome |-> "printed"]
            ELSE [graph |-> with_functions.graph, outcome |-> "returned"]

NoCycles == [ran |-> FALSE, rows |-> {}]

InitGraphVars ==
    /\ fs \in {files \in [ProjectFiles -> UNION {FileContents[p] : p \in ProjectFiles}] :
                    \A p \in ProjectFiles : files[p] \in FileContents[p]}
    /\ graph = EmptyGraph
    /\ outcome = "none"
    /\ cycles = NoCycles

\* The user saves a file.
WriteFile ==
    /\ \E p \in ProjectFiles : \E content \in FileContents[p] :
            /\ fs[p] # content
            /\ fs' = [fs EXCEPT ![p] = content]
    /\ UNCHANGED <<graph, outcome, cycles, hashVars, ledgerVars, srpVars, thrVars, scanVars, watchVars>>

\* The user removes a file.
RemoveFile ==
    /\ \E p \in ProjectFiles :
            /\ Exists(fs, p)
            /\ fs' = [fs EXCEPT ![p] = NoFile]
    /\ UNCHANGED <<graph, outcome, cycles, hashVars, ledgerVars, srpVars, thrVars, scanVars, watchVars>>

\* StructureFacade.run_genesis_scan
ScanProject ==
    /\ \E files_to_parse \in find_files(fs) :
            LET scanned == scan_project(graph, fs, files_to_parse)
            IN  /\ graph' = scanned.graph
                /\ outcome' = IF scanned.raised THEN "raised" ELSE "returned"
    /\ UNCHANGED <<fs, cycles, hashVars, ledgerVars, srpVars, thrVars, scanVars, watchVars>>

\* StructureFacade.update_file
UpdateFile(p) ==
    /\ graph' = update_file(graph, fs, p).graph
    /\ outcome' = update_file(graph, fs, p).outcome
    /\ UNCHANGED <<fs, cycles, hashVars, ledgerVars, srpVars, thrVars, scanVars, watchVars>>

UpdateAnyFile == \E p \in ProjectFiles : UpdateFile(p)

(***************************************************************************)
(* Queries (structure/queries.py) and the store called directly.           *)
(***************************************************************************)
\* Kuzu matches -[:IMPORTS*]-> as walks (nodes and edges may repeat) of at
\* most its default upper bound of hops; the model keeps walks of at most
\* MaxHops edges.
MaxHops == 4

\* The walks of exactly k IMPORTS edges, each the sequence of its nodes.
RECURSIVE WalksOfLength(_, _)
WalksOfLength(g, k) ==
    IF k = 1 THEN {<<e[1], e[2]>> : e \in DOMAIN g.imports}
    ELSE {Append(w, e[2]) : <<w, e>> \in
            {<<w, e>> \in WalksOfLength(g, k - 1) \X DOMAIN g.imports : w[Len(w)] = e[1]}}

\* ViolationQueries.find_circular_dependencies:
\*   MATCH path = (f1:File)-[:IMPORTS*]->(f1) WHERE length(path) > 1
\*   RETURN [node IN nodes(path) | node.path] AS cycle
find_circular_dependencies(g) ==
    UNION {{w \in WalksOfLength(g, k) : w[1] = w[Len(w)] /\ Len(w) - 1 > 1} : k \in 1..MaxHops}

QueryFiles == {"a.py", "b.py", "c.py"}

\* KuzuManager.add_file, called by a user of the store
StoreAddFile ==
    /\ \E path \in QueryFiles :
            graph' = add_file(graph, [path |-> path, language |-> "python",
                                      lines_of_code |-> 1])
    /\ cycles' = NoCycles
    /\ UNCHANGED <<fs, outcome, hashVars, ledgerVars, srpVars, thrVars, scanVars, watchVars>>

\* KuzuManager.add_import, called by a user of the store
StoreAddImport ==
    /\ \E from_file \in QueryFiles, to_module \in QueryFiles :
            graph' = add_import(graph, from_file, to_module, <<"name">>)
    /\ cycles' = NoCycles
    /\ UNCHANGED <<fs, outcome, hashVars, ledgerVars, srpVars, thrVars, scanVars, watchVars>>

\* StructureFacade.find_circular_dependencies
FindCircularDependencies ==
    /\ cycles' = [ran |-> TRUE, rows |-> find_circular_dependencies(graph)]
    /\ UNCHANGED <<fs, graph, outcome, hashVars, ledgerVars, srpVars, thrVars, scanVars, watchVars>>

(***************************************************************************)
(* The SRP rule and its scorers (cores/analysis/rules).  The scores are    *)
(* Python floats in [0, 1]; the model keeps them in thousandths, rounded   *)
(* down, so 0.7 is 700.                                                    *)
(***************************************************************************)
Min(a, b) == IF a < b THEN a ELSE b
Max(a, b) == IF a > b THEN a ELSE b

\* n / d in thousandths
Thousandths(n, d) == (n * 1000) \div d

\* proportion ** 0.5 in thousandths, for every proportion in thousandths
SquareRoot ==
    [p \in 0..1000 |->
        CHOOSE r \in 0..1000 : r * r <= p * 1000 /\ (r + 1) * (r + 1) > p * 1000]

\* the keys of MethodAnalyzer.VERB_CATEGORIES, in the dict's order
VERB_CATEGORIES ==
    <<"data", "validation", "transformation", "communication", "calculation",
      "orchestration">>

\* the keys of DependencyAnalyzer.CONCERN_PATTERNS, in the dict's order
CONCERN_PATTERNS ==
    <<"persistence", "communication", "serialization", "validation", "logging",
      "caching", "file_io", "datetime", "security">>

RECURSIVE SumOver(_, _)
\* sum(term[k] for k in keys)
SumOver(term, keys) ==
    IF keys = {} THEN 0
    ELSE LET k == CHOOSE x \in keys : TRUE
         IN  term[k] + SumOver(term, keys \ {k})

\* DependencyAnalyzer.calculate_dependency_diversity
calculate_dependency_diversity(concert_counts) ==
    LET num_concerns == Cardinality(DOMAIN concert_counts)
    IN  IF DOMAIN concert_counts = {} THEN 0
        ELSE IF num_concerns = 1 THEN 0
        ELSE IF num_concerns = 2 THEN 300
        ELSE IF num_concerns = 3 THEN 600
        ELSE Min(600 + (num_concerns - 3) * 100, 1000)

\* MethodAnalyzer.calculate_concert_diversity:
\*   entropy -= proportion * (proportion**0.5);  return min(entropy / 1.0, 1.0)
calculate_concert_diversity(category_counts) ==
    LET total_methods == SumOver(category_counts, DOMAIN category_counts)
        num_categories == Cardinality(DOMAIN category_counts)
        proportion(c) == Thousandths(category_counts[c], total_methods)
        term == [c \in DOMAIN category_counts |->
                    (proportion(c) * SquareRoot[proportion(c)]) \div 1000]
        entropy == 0 - SumOver(term, DOMAIN category_counts)
    IN  IF DOMAIN category_counts = {} THEN 0
        ELSE IF num_categories = 1 THEN 0
        ELSE Min(entropy, 1000)

\* SemanticAnalyzer.cluster_methods after DBSCAN has labelled the
\* embeddings: num_clusters is the number of labels other than noise.
cluster_methods(num_signatures, num_clusters) ==
    IF num_signatures < 2 THEN <<1, 0>>
    ELSE IF num_clusters <= 1 THEN <<num_clusters, 0>>
    ELSE <<num_clusters, Min(300 * num_clusters, 1000)>>

\* SemanticAnalyzer.calculate_semantic_diversity
calculate_semantic_diversity(num_method_names, num_clusters) ==
    IF num_method_names < 2 THEN 0
    ELSE cluster_methods(num_method_names, num_clusters)[2]

\* Vectorizer.vectorize_batch: the model is loaded and encodes the texts, or
\* SentenceTransformer raises (loading or encoding); nothing is caught.
vectorize_batch(num_texts, encoder_fails) ==
    IF encoder_fails THEN [raised |-> TRUE, embeddings |-> 0]
    ELSE [raised |-> FALSE, embeddings |-> num_texts]

\* A call of calculate_semantic_diversity with the encoder's outcome:
\* cluster_methods calls vectorize_batch outside any try, so what the encoder
\* raises leaves cluster_methods and calculate_semantic_diversity; with fewer
\* than two methods the encoder is not called.
semantic_diversity_call(num_method_names, num_clusters, encoder_fails) ==
    IF num_method_names < 2
    THEN [raised |-> FALSE, value |-> 0, encoder_failed |-> FALSE]
    ELSE IF vectorize_batch(num_method_names, encoder_fails).raised
    THEN [raised |-> TRUE, value |-> 0, encoder_failed |-> TRUE]
    ELSE [raised |-> FALSE, encoder_failed |-> FALSE,
          value |-> calculate_semantic_diversity(num_method_names, num_clusters)]

\* The layer a path names, and "none" for a path that names no layer.
PathLayer ==
    [path \in {"src/domain/order.py", "src/controller/orders.py",
               "src/service/billing.py", "src/legacy/batch.py"} |->
        CASE path = "src/domain/order.py"      -> "domain"
          [] path = "src/controller/orders.py" -> "controller"
          [] path = "src/service/billing.py"   -> "service"
          [] path = "src/legacy/batch.py"      -> "legacy"]

SrpPaths == DOMAIN PathLayer

\* DependencyAnalyzer.check_layer_violations; forbidden says that an import
\* names a module the path's layer must not import.
check_layer_violations(file_path, forbidden) ==
    IF PathLayer[file_path] \in {"domain", "entity", "controller"} /\ forbidden
    THEN <<"layer">>
    ELSE <<>>

SEMANTIC_WEIGHT     == 400
DEPENDENCY_WEIGHT   == 300
NAMING_WEIGHT       == 200
METHOD_COUNT_WEIGHT == 100

\* SRPScore.is_violation
is_violation(score) == score.total_score >= 700

\* SRPScore.severity
severity(score) ==
    IF score.total_score >= 900 THEN "critical"
    ELSE IF score.total_score >= 800 THEN "high"
    ELSE IF score.total_score >= 700 THEN "medium"
    ELSE "low"

\* A variant that returns the weighted sum as it is, without min(max(.)).
calculate_score_unclamped(semantic_diversity, dependency_diversity, naming_diversity, method_count, expected_tolerance, num_semantic_clusters, num_dependency_concerns, num_naming_categories, layer_violations) ==
    LET ratio == Thousandths(method_count, expected_tolerance)
        method_count_score ==
            IF expected_tolerance > 0
            THEN IF method_count <= expected_tolerance THEN 0
                 ELSE IF method_count <= 2 * expected_tolerance THEN 300
                 ELSE Min(600 + (ratio - 2000) \div 10, 1000)
            ELSE 0
        layer_violation_boost == IF layer_violations # <<>> THEN 200 ELSE 0
        total_score ==
            (SEMANTIC_WEIGHT * semantic_diversity
             + DEPENDENCY_WEIGHT * dependency_diversity
             + NAMING_WEIGHT * naming_diversity
             + METHOD_COUNT_WEIGHT * method_count_score) \div 1000
            + layer_violation_boost
    IN  [total_score |-> total_score,
         semantic_score |-> semantic_diversity,
         dependency_score |-> dependency_diversity,
         naming_score |-> naming_diversity,
         method_count_score |-> method_count_score,
         num_methods |-> method_count,
         num_semantic_clusters |-> num_semantic_clusters,
         num_dependency_concerns |-> num_dependency_concerns,
         num_naming_categories |-> num_naming_categories,
         layer_violations |-> layer_violations]

\* SPRScorer.calculate_score
calculate_score(semantic_diversity, dependency_diversity, naming_diversity, method_count, expected_tolerance, num_semantic_clusters, num_dependency_concerns, num_naming_categories, layer_violations) ==
    LET ratio == Thousandths(method_count, expected_tolerance)
        method_count_score ==
            IF expected_tolerance > 0
            THEN IF method_count <= expected_tolerance THEN 0
                 ELSE IF method_count <= 2 * expected_tolerance THEN 300
                 ELSE Min(600 + (ratio - 2000) \div 10, 1000)
            ELSE 0
        layer_violation_boost == IF layer_violations # <<>> THEN 200 ELSE 0
        total_score ==
            (SEMANTIC_WEIGHT * semantic_diversity
             + DEPENDENCY_WEIGHT * dependency_diversity
             + NAMING_WEIGHT * naming_diversity
             + METHOD_COUNT_WEIGHT * method_count_score) \div 1000
            + layer_violation_boost
    IN  [total_score |-> Min(Max(total_score, 0), 1000),
         semantic_score |-> semantic_diversity,
         dependency_score |-> dependency_diversity,
         naming_score |-> naming_diversity,
         method_count_score |-> method_count_score,
         num_methods |-> method_count,
         num_semantic_clusters |-> num_semantic_clusters,
         num_dependency_concerns |-> num_dependency_concerns,
         num_naming_categories |-> num_naming_categories,
         layer_violations |-> layer_violations]

\* SRPRule.tolerance_map
tolerance_map ==
    [layer \in {"domain", "entity", "controller", "service", "legacy"} |->
        CASE layer \in {"domain", "entity"} -> 1
          [] layer = "controller"           -> 3
          [] layer = "service"              -> 5
          [] layer = "legacy"               -> 999]

\* SRPRule._get_tolerance_for_path: the tolerance of the layer the path names
get_tolerance_for_path(file_path) == tolerance_map[PathLayer[file_path]]

\* SRPRule.analyze, which reports on the method count alone
analyze(file_path, context) ==
    LET tolerance == get_tolerance_for_path(file_path)
        classes == context.classes
        reported == {i \in 1..Len(classes) : classes[i].method_count > tolerance * 3}
        violation(cls) ==
            [rule_name |-> "SRP", severity |-> "high", file_path |-> file_path,
             line_number |-> cls.start_line, code_snippet |-> cls.name]
        RECURSIVE Collect(_)
        Collect(i) ==
            IF i > Len(classes) THEN <<>>
            ELSE (IF i \in reported THEN <<violation(classes[i])>> ELSE <<>>)
                    \o Collect(i + 1)
    IN  IF tolerance = 999 THEN <<>> ELSE Collect(1)

\* The four signals of a type, as the scorers give them, combined.
ScoreOf(cls) ==
    calculate_score(
        calculate_semantic_diversity(cls.method_count, cls.num_clusters),
        calculate_dependency_diversity(cls.concert_counts),
        calculate_concert_diversity(cls.category_counts),
        cls.method_count,
        get_tolerance_for_path(cls.file_path),
        cls.num_clusters,
        Cardinality(DOMAIN cls.concert_counts),
        Cardinality(DOMAIN cls.category_counts),
        check_layer_violations(cls.file_path, cls.forbidden_import))

\* ---- the types of the model
MaxRatio       == 4    \* method counts up to MaxRatio times the tolerance
MaxPerCategory == 2    \* methods of one verb category
MaxCategories  == 4    \* verb categories a type's methods fall into
MaxConcerns    == 4    \* concern domains a type's imports fall into
MaxClusters    == 3    \* clusters DBSCAN finds

First(seq, n) == {seq[i] : i \in 1..Min(n, Len(seq))}

\* The counts of the methods per verb category.  The scorers read the counts
\* and not the categories' names, so the larger counts are given to the
\* earlier categories.
CategoryCounts ==
    UNION {{counts \in [First(VERB_CATEGORIES, n) -> 1..MaxPerCategory] :
                \A i, j \in 1..n :
                    i < j => counts[VERB_CATEGORIES[i]] >= counts[VERB_CATEGORIES[j]]} :
            n \in 0..MaxCategories}

ConcertCounts ==
    {[c \in First(CONCERN_PATTERNS, n) |-> 1] : n \in 0..MaxConcerns}

MethodCounts(file_path) ==
    LET tolerance == get_tolerance_for_path(file_path)
    IN  {k * tolerance : k \in 0..MaxRatio} \cup {3 * tolerance + 1}

\* The types of a file with what the analyzers are given of each; the
\* methods whose verb is in no category are counted in method_count only,
\* and a cluster has two methods or more.
SrpClassesOf(file_path) ==
    {cls \in
        {[file_path |-> file_path, name |-> "Orders", start_line |-> 1,
          method_count |-> method_count, category_counts |-> category_counts,
          concert_counts |-> concert_counts, num_clusters |-> num_clusters,
          forbidden_import |-> forbidden_import] :
            method_count \in MethodCounts(file_path),
            category_counts \in CategoryCounts,
            concert_counts \in ConcertCounts,
            num_clusters \in 0..MaxClusters,
            forbidden_import \in BOOLEAN} :
        /\ SumOver(cls.category_counts, DOMAIN cls.category_counts) <= cls.method_count
        /\ 2 * cls.num_clusters <= cls.method_count
        /\ cls.forbidden_import =>
            /\ DOMAIN cls.concert_counts # {}
            /\ PathLayer[file_path] \in {"domain", "controller"}}

NoReport == [ran |-> FALSE, violations |-> <<>>]
NoScore  == [ran |-> FALSE, score |-> <<>>]
NoSignal == [ran |-> FALSE, raised |-> FALSE, value |-> 0, encoder_failed |-> FALSE]

InitSrpVars ==
    /\ \E file_path \in SrpPaths : srpClass \in SrpClassesOf(file_path)
    /\ srpReported = NoReport
    /\ srpScore = NoScore
    /\ srpSemantic = NoSignal

\* SRPRule.analyze(file_path, {"classes": [cls]})
Analyze ==
    /\ srpReported' =
        [ran |-> TRUE,
         violations |-> analyze(srpClass.file_path, [classes |-> <<srpClass>>])]
    /\ UNCHANGED <<srpClass, srpScore, srpSemantic, hashVars, ledgerVars, graphVars, thrVars, scanVars, watchVars>>

\* the analyzers' signals for the type, combined by SPRScorer.calculate_score
CalculateScore ==
    /\ srpScore' = [ran |-> TRUE, score |-> ScoreOf(srpClass)]
    /\ UNCHANGED <<srpClass, srpReported, srpSemantic, hashVars, ledgerVars, graphVars, thrVars, scanVars, watchVars>>

\* SemanticAnalyzer.calculate_semantic_diversity on the type's method names,
\* the encoder working or failing
SemanticDiversity ==
    /\ \E encoder_fails \in BOOLEAN :
            srpSemantic' =
                [ran |-> TRUE] @@
                semantic_diversity_call(srpClass.method_count, srpClass.num_clusters, encoder_fails)
    /\ UNCHANGED <<srpClass, srpReported, srpScore, hashVars, ledgerVars, graphVars, thrVars, scanVars, watchVars>>

\* the type held while another part of the program is exercised: no methods,
\* no imports
IdleSrpClass ==
    [file_path |-> "src/domain/order.py", name |-> "Orders", start_line |-> 1,
     method_count |-> 0, category_counts |-> [c \in {} |-> 1],
     concert_counts |-> [c \in {} |-> 1], num_clusters |-> 0,
     forbidden_import |-> FALSE]

IdleSrpVars ==
    /\ srpClass = IdleSrpClass
    /\ srpReported = NoReport
    /\ srpScore = NoScore
    /\ srpSemantic = NoSignal

(***************************************************************************)
(* Threshold rules (analysis/rules/base.py, complexity_rule.py,            *)
(* god_class_rule.py).  A dict is a function; dict.get gives the default   *)
(* for a key the dict has not.                                             *)
(***************************************************************************)
Get(dict, key, default) == IF key \in DOMAIN dict THEN dict[key] ELSE default

\* str.lower on the rule names
Lower == [name \in {"COMPLEXITY", "GOD_CLASS"} |->
            IF name = "COMPLEXITY" THEN "complexity" ELSE "god_class"]

\* ComplexityRule(threshold); metric_key is ThresholdRule's name.lower()
ComplexityRule(threshold) ==
    [name |-> "COMPLEXITY", threshold |-> threshold, context_key |-> "functions",
     metric_key |-> Lower["COMPLEXITY"], item_name_key |-> "jname"]

\* GodClassRule(threshold), which overrides metric_key
GodClassRule(threshold) ==
    [name |-> "GOD_CLASS", threshold |-> threshold, context_key |-> "classes",
     metric_key |-> "method_count", item_name_key |-> "name"]

\* The same with >= for >, as the god-object query compares.
calculate_severity_inclusive(rule, metric_value) ==
    IF metric_value >= rule.threshold * 3 THEN "critical"
    ELSE IF metric_value >= rule.threshold * 2 THEN "high"
    ELSE IF metric_value >= rule.threshold THEN "medium"
    ELSE "low"

\* ThresholdRule.calculate_severity
calculate_severity(rule, metric_value) ==
    IF metric_value > rule.threshold * 3 THEN "critical"
    ELSE IF metric_value > rule.threshold * 2 THEN "high"
    ELSE IF metric_value > rule.threshold THEN "medium"
    ELSE "low"

RECURSIVE threshold_violations(_, _, _, _)
\* the loop of ThresholdRule.analyze over items[i..]
threshold_violations(rule, file_path, items, i) ==
    IF i > Len(items) THEN <<>>
    ELSE LET item == items[i]
             metric_value == Get(item, rule.metric_key, 0)
         IN  (IF metric_value > rule.threshold
              THEN <<[rule_name |-> rule.name,
                      severity |-> calculate_severity(rule, metric_value),
                      file_path |-> file_path,
                      line_number |-> Get(item, "start_line", 0),
                      code_snippet |-> Get(item, "name", "unknown")]>>
              ELSE <<>>)
             \o threshold_violations(rule, file_path, items, i + 1)

\* ThresholdRule.analyze
threshold_analyze(rule, file_path, context) ==
    threshold_violations(rule, file_path, Get(context, rule.context_key, <<>>), 1)

\* ---- the rules and contexts of the model
MaxThreshold == 10   \* thresholds 1..MaxThreshold
MaxMultiple  == 3    \* metrics around 0, t, ..., MaxMultiple * t
MaxItems     == 2    \* items of a context

ThresholdRules ==
    UNION {{ComplexityRule(t), GodClassRule(t)} : t \in 1..MaxThreshold}

\* the metrics next to the multiples of the threshold
MetricsAround(threshold) ==
    {m \in {k * threshold + d : k \in 0..MaxMultiple, d \in {-1, 0, 1}} : m >= 0}

\* An item of the context: the i-th function or class of the file, with its
\* metric under metric_key, or with no metric at all.
ContextItems(metric_key, threshold, i) ==
    {[key \in {"name", "start_line"} |-> IF key = "name" THEN "item" ELSE i]}
    \cup {[key \in {"name", "start_line", metric_key} |->
            IF key = "name" THEN "item" ELSE IF key = "start_line" THEN i ELSE m] :
          m \in MetricsAround(threshold)}

RECURSIVE ItemLists(_, _, _)
\* the lists of n items, the i-th at line i
ItemLists(metric_key, threshold, n) ==
    IF n = 0 THEN {<<>>}
    ELSE {Append(items, item) :
            items \in ItemLists(metric_key, threshold, n - 1),
            item \in ContextItems(metric_key, threshold, n)}

\* the contexts a rule may be given: the parsed functions with their
\* complexity, or the parsed classes with their method_count
Contexts(threshold) ==
    UNION {{[key \in {"functions"} |-> items] :
                items \in ItemLists("complexity", threshold, n)}
           \cup {[key \in {"classes"} |-> items] :
                items \in ItemLists("method_count", threshold, n)} : n \in 0..MaxItems}

NoThresholdReport == [ran |-> FALSE, violations |-> <<>>]

InitThrVars ==
    /\ thrRule \in ThresholdRules
    /\ thrContext \in Contexts(thrRule.threshold)
    /\ thrReported = NoThresholdReport

IdleThrVars ==
    /\ thrRule = ComplexityRule(MaxThreshold)
    /\ thrContext = [key \in {"functions"} |-> <<>>]
    /\ thrReported = NoThresholdReport

\* rule.analyze("src/service/billing.py", context) on a ThresholdRule
AnalyzeThreshold ==
    /\ thrReported' =
        [ran |-> TRUE,
         violations |-> threshold_analyze(thrRule, "src/service/billing.py", thrContext)]
    /\ UNCHANGED <<thrRule, thrContext, hashVars, ledgerVars, graphVars, srpVars, scanVars, watchVars>>

(***************************************************************************)
(* scan_project step by step (structure/scanner.py): the pool's workers    *)
(* parse the files, each returning in its own time; pool.starmap returns   *)
(* the list of results; the loop that follows inserts them.                *)
(***************************************************************************)
\* the result slot of a worker that has not returned
NotReturned == [failed |-> TRUE, pending |-> TRUE]

\* A pool that hands back the results without waiting for the workers
\* (map_async, and .get() never called).
starmap_returns_async(running) == TRUE

\* pool.starmap blocks until every worker has returned
starmap_returns(running) == running = {}

IdleScanVars ==
    /\ scanPc = "idle"
    /\ scanFiles = <<>>
    /\ scanRunning = {}
    /\ scanResults = <<>>
    /\ scanCursor = 0

\* scan_project up to the pool: _find_files, and one task per file
StartScan ==
    /\ scanPc = "idle"
    /\ \E files_to_parse \in find_files(fs) :
            /\ scanFiles' = files_to_parse
            /\ scanRunning' = 1..Len(files_to_parse)
            /\ scanResults' = [i \in 1..Len(files_to_parse) |-> NotReturned]
    /\ scanPc' = "parsing"
    /\ scanCursor' = 0
    /\ UNCHANGED <<graphVars, hashVars, ledgerVars, srpVars, thrVars, watchVars>>

\* a worker's _parse_file_worker returns
WorkerReturns ==
    /\ scanPc \in {"parsing", "inserting"}
    /\ \E i \in scanRunning :
            /\ scanResults' = [scanResults EXCEPT ![i] = parse_file_worker(fs, scanFiles[i])]
            /\ scanRunning' = scanRunning \ {i}
    /\ UNCHANGED <<scanPc, scanFiles, scanCursor, graphVars, hashVars, ledgerVars, srpVars, thrVars, watchVars>>

\* results = pool.starmap(...), and the pool is left
StarmapReturns ==
    /\ scanPc = "parsing"
    /\ starmap_returns(scanRunning)
    /\ scanPc' = "inserting"
    /\ scanCursor' = 1
    /\ UNCHANGED <<scanFiles, scanRunning, scanResults, graphVars, hashVars, ledgerVars, srpVars, thrVars, watchVars>>

\* one turn of "for result in results": the upserts of one result
InsertResult ==
    /\ scanPc = "inserting"
    /\ scanCursor <= Len(scanFiles)
    /\ LET inserted == InsertResults(graph, fs, <<scanResults[scanCursor]>>)
       IN  /\ graph' = inserted.graph
           /\ IF inserted.raised
              THEN /\ outcome' = "raised"
                   /\ scanPc' = "idle"
              ELSE UNCHANGED <<outcome, scanPc>>
    /\ scanCursor' = scanCursor + 1
    /\ UNCHANGED <<fs, cycles, scanFiles, scanRunning, scanResults, hashVars, ledgerVars, srpVars, thrVars, watchVars>>

\* the loop is over and scan_project returns
ScanReturns ==
    /\ scanPc = "inserting"
    /\ scanCursor > Len(scanFiles)
    /\ scanRunning = {}
    /\ scanPc' = "idle"
    /\ scanFiles' = <<>>
    /\ scanResults' = <<>>
    /\ scanCursor' = 0
    /\ outcome' = "returned"
    /\ UNCHANGED <<fs, graph, cycles, scanRunning, hashVars, ledgerVars, srpVars, thrVars, watchVars>>

(***************************************************************************)
(* The file watcher's handler (io/watcher.py, DebouncedHandler).  A file   *)
(* name is the sequence of its characters.  The coroutines run on one      *)
(* event loop: a coroutine keeps the loop from one await to the next, and  *)
(* the lock is never held across an await, so that a step of the model is  *)
(* a coroutine from one await to the next.                                 *)
(***************************************************************************)
\* str.endswith and str.startswith
EndsWith(name, pattern) ==
    /\ Len(pattern) <= Len(name)
    /\ SubSeq(name, Len(name) - Len(pattern) + 1, Len(name)) = pattern
StartsWith(name, pattern) ==
    /\ Len(pattern) <= Len(name)
    /\ SubSeq(name, 1, Len(pattern)) = pattern

\* pathlib's Path.suffix: the name from its last dot on, when the dot is
\* neither its first nor its last character
PathSuffix(name) ==
    LET dots == {i \in 2..Len(name) : name[i] = "."}
        last == CHOOSE i \in dots : \A j \in dots : j <= i
    IN  IF dots = {} \/ name[Len(name)] = "." THEN <<>>
        ELSE SubSeq(name, last, Len(name))

\* temp_patterns and supported_extensions
temp_patterns ==
    {<<".", "s", "w", "p">>, <<".", "s", "w", "o">>, <<".", "s", "w", "n">>, <<"~">>,
     <<".", "t", "m", "p">>, <<".", "b", "a", "k">>}
supported_extensions ==
    {<<".", "p", "y">>, <<".", "t", "s">>, <<".", "t", "s", "x">>, <<".", "j", "s">>,
     <<".", "j", "s", "x">>}

\* DebouncedHandler._is_temp_file
is_temp_file(name) ==
    (\E pattern \in temp_patterns : EndsWith(name, pattern)) \/ StartsWith(name, <<".">>)

\* DebouncedHandler._is_supported_file
is_supported_file(name) == PathSuffix(name) \in supported_extensions

\* DebouncedHandler.on_modified: "ignored" for an event it returns on;
\* asyncio.create_task gives "created" on the thread of the running loop and
\* raises RuntimeError (no running event loop) on any other thread
on_modified(event, on_loop_thread) ==
    IF event.is_directory THEN "ignored"
    ELSE IF is_temp_file(event.src_path) THEN "ignored"
    ELSE IF ~is_supported_file(event.src_path) THEN "ignored"
    ELSE IF on_loop_thread THEN "created"
    ELSE "raised"

\* self.task.done()
task_done(tasks) == tasks = <<>> \/ tasks[Len(tasks)] # "sleeping"

\* A variant that starts the new task and leaves the old one sleeping.
schedule_processing_without_cancel(pending, tasks, file_path) ==
    [pending_files |-> pending \cup {file_path}, tasks |-> Append(tasks, "sleeping")]

\* DebouncedHandler._schedule_processing: the path joins pending_files, the
\* task that is not done is cancelled, and a new task starts its sleep
schedule_processing(pending, tasks, file_path) ==
    LET cancelled ==
            IF ~task_done(tasks) THEN [tasks EXCEPT ![Len(tasks)] = "cancelled"] ELSE tasks
    IN  [pending_files |-> pending \cup {file_path}, tasks |-> Append(cancelled, "sleeping")]

\* DebouncedHandler._process_after_delay after its sleep: the copy of
\* pending_files, pending_files cleared, and the callback called once for each
\* element of the copy
process_after_delay(pending) ==
    [pending_files |-> {}, calls |-> [file_path \in pending |-> 1]]

\* ---- the events of the model
MaxEvents == 4

Name_a_py  == <<"a", ".", "p", "y">>
Name_b_ts  == <<"b", ".", "t", "s">>
WatchEvents ==
    {[src_path |-> Name_a_py, is_directory |-> FALSE],
     [src_path |-> Name_b_ts, is_directory |-> FALSE],
     [src_path |-> Name_a_py, is_directory |-> TRUE],
     [src_path |-> <<"a", ".", "p", "y", "~">>, is_directory |-> FALSE],
     [src_path |-> <<"a", ".", "p", "y", ".", "s", "w", "p">>, is_directory |-> FALSE],
     [src_path |-> <<".", "a", ".", "p", "y">>, is_directory |-> FALSE],
     [src_path |-> <<"a", ".", "m", "d">>, is_directory |-> FALSE]}
WatchedNames == {event.src_path : event \in WatchEvents}

NoBatch == [n |-> 0, calls |-> <<>>, events |-> <<>>]

\* DebouncedHandler.__init__, and who calls on_modified: the thread of
\* watchdog's Observer that FileWatcher.start starts, or the loop's thread
InitWatchVars ==
    /\ wOnLoop \in BOOLEAN
    /\ wEvents = 0
    /\ pending_files = {}
    /\ wCreated = <<>>
    /\ wTasks = <<>>
    /\ wAccepted = [name \in WatchedNames |-> 0]
    /\ wBatch = NoBatch
    /\ wRaised = FALSE

IdleWatchVars ==
    /\ wOnLoop = FALSE
    /\ wEvents = 0
    /\ pending_files = {}
    /\ wCreated = <<>>
    /\ wTasks = <<>>
    /\ wAccepted = [name \in WatchedNames |-> 0]
    /\ wBatch = NoBatch
    /\ wRaised = FALSE

otherVars == <<hashVars, ledgerVars, graphVars, srpVars, thrVars, scanVars>>

\* on_modified(event), called by the observer
OnModified ==
    /\ wEvents < MaxEvents
    /\ \E event \in WatchEvents :
        LET result == on_modified(event, wOnLoop)
        IN  /\ wEvents' = wEvents + 1
            /\ wAccepted' =
                    IF result = "ignored" THEN wAccepted
                    ELSE [wAccepted EXCEPT ![event.src_path] = @ + 1]
            /\ wCreated' =
                    IF result = "created" THEN Append(wCreated, event.src_path) ELSE wCreated
            /\ wRaised' = (wRaised \/ result = "raised")
    /\ UNCHANGED <<wOnLoop, pending_files, wTasks, wBatch, otherVars>>

\* the loop runs the oldest _schedule_processing task
ScheduleProcessing ==
    /\ wCreated # <<>>
    /\ LET scheduled == schedule_processing(pending_files, wTasks, Head(wCreated))
       IN  /\ pending_files' = scheduled.pending_files
           /\ wTasks' = scheduled.tasks
    /\ wCreated' = Tail(wCreated)
    /\ UNCHANGED <<wOnLoop, wEvents, wAccepted, wBatch, wRaised, otherVars>>

\* the sleep of a _process_after_delay task ends and the loop runs the task
\* to its end
ProcessAfterDelay ==
    /\ \E i \in 1..Len(wTasks) :
            /\ wTasks[i] = "sleeping"
            /\ wTasks' = [wTasks EXCEPT ![i] = "done"]
    /\ LET processed == process_after_delay(pending_files)
       IN  /\ pending_files' = processed.pending_files
           /\ wBatch' = [n |-> wBatch.n + 1, calls |-> processed.calls,
                         events |-> [name \in DOMAIN processed.calls |-> wAccepted[name]]]
           /\ wAccepted' = [name \in WatchedNames |->
                                IF name \in DOMAIN processed.calls THEN 0 ELSE wAccepted[name]]
    /\ UNCHANGED <<wOnLoop, wEvents, wCreated, wRaised, otherVars>>

Init == InitHashVars /\ InitLedgerVars /\ InitGraphVars /\ InitSrpVars /\ InitThrVars /\ IdleScanVars /\ IdleWatchVars

\* normalize_and_hash on a pair of snippets
IdleGraphVars ==
    /\ fs = [p \in ProjectFiles |-> NoFile]
    /\ graph = EmptyGraph
    /\ outcome = "none"
    /\ cycles = NoCycles

InitHash   == InitHashVars /\ InitLedgerVars /\ IdleGraphVars /\ IdleSrpVars /\ IdleThrVars /\ IdleScanVars /\ IdleWatchVars
NextHash   == HashA \/ HashB
SpecHash   == InitHash /\ [][NextHash]_vars

\* the ledger under any sequence of calls
InitLedger ==
    /\ codeA = CodeSend /\ codeB = CodeSend /\ hashA = NoDigest /\ hashB = NoDigest
    /\ InitLedgerVars
    /\ IdleGraphVars
    /\ IdleSrpVars
    /\ IdleThrVars
    /\ IdleScanVars
    /\ IdleWatchVars
NextLedger == StoreViolation \/ IgnoreViolation \/ InvalidateIfChanged
SpecLedger == InitLedger /\ [][NextLedger]_vars

IdleHashVars ==
    codeA = CodeSend /\ codeB = CodeSend /\ hashA = NoDigest /\ hashB = NoDigest

\* the project edited, scanned and updated file by file
InitGraph == IdleHashVars /\ InitLedgerVars /\ InitGraphVars /\ IdleSrpVars /\ IdleThrVars /\ IdleScanVars /\ IdleWatchVars
NextGraph == WriteFile \/ RemoveFile \/ ScanProject \/ UpdateAnyFile
SpecGraph == InitGraph /\ [][NextGraph]_vars

\* the store filled through its own methods, and queried
InitQuery == IdleHashVars /\ InitLedgerVars /\ IdleGraphVars /\ IdleSrpVars /\ IdleThrVars /\ IdleScanVars /\ IdleWatchVars
NextQuery == StoreAddFile \/ StoreAddImport \/ FindCircularDependencies
SpecQuery == InitQuery /\ [][NextQuery]_vars

\* the SRP rule and the SRP scorers on one type
InitSRP == IdleHashVars /\ InitLedgerVars /\ IdleGraphVars /\ InitSrpVars /\ IdleThrVars /\ IdleScanVars /\ IdleWatchVars
NextSRP == Analyze \/ CalculateScore \/ SemanticDiversity
SpecSRP == InitSRP /\ [][NextSRP]_vars

\* a threshold rule on one context
InitThreshold ==
    IdleHashVars /\ InitLedgerVars /\ IdleGraphVars /\ IdleSrpVars /\ InitThrVars /\ IdleScanVars /\ IdleWatchVars
NextThreshold == AnalyzeThreshold
SpecThreshold == InitThreshold /\ [][NextThreshold]_vars

\* scans taken step by step, the project edited between them
InitScan == InitGraph
NextScan ==
    \/ (scanPc = "idle" /\ WriteFile)
    \/ (scanPc = "idle" /\ RemoveFile)
    \/ StartScan \/ WorkerReturns \/ StarmapReturns \/ InsertResult \/ ScanReturns
SpecScan == InitScan /\ [][NextScan]_vars

\* the handler under events, the loop running its tasks
InitWatcher ==
    /\ IdleHashVars /\ InitLedgerVars /\ IdleGraphVars /\ IdleSrpVars /\ IdleThrVars /\ IdleScanVars
    /\ InitWatchVars
NextWatcher == OnModified \/ ScheduleProcessing \/ ProcessAfterDelay
SpecWatcher == InitWatcher /\ [][NextWatcher]_vars

\* the same, the loop running every task that is ready and every sleep ending
SpecWatcherFair ==
    SpecWatcher /\ WF_vars(ScheduleProcessing) /\ WF_vars(ProcessAfterDelay)

(***************************************************************************)
(* Properties of normalize_and_hash (SpecHash).                            *)
(***************************************************************************)
BothHashed == hashA # NoDigest /\ hashB # NoDigest

\* The two snippets differ at most in the names of local identifiers and in
\* formatting.
SameUpToLocalsAndFormat(a, b) ==
    /\ a.ok /\ b.ok
    /\ a.doc = b.doc /\ a.style = b.style /\ a.callee = b.callee /\ a.flow = b.flow

\* C4: two snippets that parse and differ only in local identifier names
\* (assigned variable, loop variable, function parameter) and in formatting
\* have the same digest.
C4_LocalNamesAndFormatErased ==
    (BothHashed /\ SameUpToLocalsAndFormat(codeA, codeB)) => hashA = hashB

\* C5: two snippets that parse and differ in control-flow structure or in the
\* name of a called function (bare f() or attribute obj.f()) have different
\* digests.
C5_FlowAndCallNamesKept ==
    (/\ BothHashed
     /\ codeA.ok /\ codeB.ok
     /\ (codeA.flow # codeB.flow \/ codeA.callee # codeB.callee))
        => hashA # hashB

(***************************************************************************)
(* Properties of the ledger (SpecLedger).                                  *)
(***************************************************************************)
ActiveSuppressionFor(violation_id) ==
    \E i \in 1..Len(ignores) :
        ignores[i].violation_id = violation_id /\ ~ignores[i].invalidated

\* C2: a violation record is ignored if and only if a suppression record that
\* is not invalidated references it.
C2_IgnoredIffActiveSuppression ==
    \A i \in 1..Len(violations) :
        violations[i].ignored <=> ActiveSuppressionFor(violations[i].id)

\* C3: invalidate_if_changed with two different hashes leaves every
\* suppression of the old hash invalidated, so is_ignored of the old code is
\* false; and is_ignored of a code turns true again only by an
\* ignore_violation for that hash.
C3_InvalidatedUntilIgnoredAgain ==
    [][ /\ \A old_code \in LedgerCodes, new_code \in LedgerCodes :
            (/\ SnippetHash[old_code] # SnippetHash[new_code]
             /\ invalidate_if_changed(old_code, new_code))
            => /\ \A i \in 1..Len(ignores') :
                    ignores'[i].snippet_hash = SnippetHash[old_code]
                        => ignores'[i].invalidated
               /\ ~is_ignored(old_code)'
        /\ \A code \in LedgerCodes :
            (~is_ignored(code) /\ is_ignored(code)')
            => \E violation_id \in 0..Len(violations), again \in LedgerCodes :
                    /\ SnippetHash[again] = SnippetHash[code]
                    /\ ignore_violation(violation_id, again, "accepted for now")
      ]_vars

\* C3, its case: two suppressions of one hash, both invalidated by a change of
\* the code, and the code is not ignored.
C3_Witness ==
    \E i \in 1..Len(ignores), j \in 1..Len(ignores) :
        /\ i # j
        /\ ignores[i].snippet_hash = SnippetHash[CodeSend]
        /\ ignores[j].snippet_hash = SnippetHash[CodeSend]
        /\ ignores[i].invalidated /\ ignores[j].invalidated
        /\ ignores[i].invalidation_reason = "Code structure changed"
        /\ ~is_ignored(CodeSend)

(***************************************************************************)
(* Properties of the graph store, scan and update (SpecGraph, SpecQuery).  *)
(***************************************************************************)
ClassesOfFile(g, p)   == {id \in DOMAIN g.classes : g.classes[id].file_path = p}
FunctionsOfFile(g, p) == {id \in DOMAIN g.functions : g.functions[id].file_path = p}

\* The graph holds nothing of file p: no node, and no edge at a node of p.
NoRecordOf(g, p) ==
    /\ p \notin DOMAIN g.files
    /\ ClassesOfFile(g, p) = {}
    /\ FunctionsOfFile(g, p) = {}
    /\ \A e \in DOMAIN g.imports : e[1] # p /\ e[2] # p
    /\ \A e \in g.defines : e[1] # p /\ e[2][1] # p
    /\ \A e \in g.contains : e[1][1] # p /\ e[2][1] # p

\* The part of the graph that does not touch file p.
WithoutFile(g, p) ==
    [files |-> Restrict(g.files, DOMAIN g.files \ {p}),
     classes |-> Restrict(g.classes, DOMAIN g.classes \ ClassesOfFile(g, p)),
     functions |-> Restrict(g.functions, DOMAIN g.functions \ FunctionsOfFile(g, p)),
     imports |-> Restrict(g.imports, {e \in DOMAIN g.imports : e[1] # p /\ e[2] # p}),
     defines |-> {e \in g.defines : e[1] # p /\ e[2][1] # p},
     contains |-> {e \in g.contains : e[1][1] # p /\ e[2][1] # p}]

\* The graph holds file p as its current content parses: the File node and
\* the Class nodes of p are those parse_file gives.
HoldsCurrentContent(g, files, p) ==
    LET parsed == parse_file(p, files[p])
    IN  /\ Exists(files, p)
        /\ ~parsed.raised
        /\ p \in DOMAIN g.files
        /\ g = AddClasses(add_file(g, parsed.file_node), parsed.classes)
        /\ ClassesOfFile(g, p) = {class_id(p, parsed.classes[i].name) :
                                    i \in 1..Len(parsed.classes)}

\* C1: deleting a file the graph holds and adding it again with the same
\* content (update_file) gives the graph there was before.
C1_DeleteThenReaddRestores ==
    \A p \in ProjectFiles :
        (Suffix[p] \in RegisteredSuffixes /\ HoldsCurrentContent(graph, fs, p))
            => update_file(graph, fs, p).graph = graph

\* C7: delete_file(p) leaves no File node p, no Class or Function node of p
\* and no edge at them, and leaves the rest of the graph as it was.
C7_DeleteFileRemovesFile ==
    \A p \in ProjectFiles :
        LET deleted == delete_file(graph, p).graph
        IN  /\ NoRecordOf(deleted, p)
            /\ WithoutFile(deleted, p) = WithoutFile(graph, p)

\* C8: update_file(p) leaves, for a file that exists and has a parser, the
\* classes and functions parsed from its content and the IMPORTS edges of its
\* imports that resolve; for a file that is gone, no record of p; for a file
\* without a parser, the graph as it was.
C8_UpdateFileReflectsContent ==
    \A p \in ProjectFiles :
        LET updated == update_file(graph, fs, p).graph
            parsed == parse_file(p, fs[p])
            imports == get_imports(fs[p])
        IN  /\ (Exists(fs, p) /\ Suffix[p] \in RegisteredSuffixes /\ ~parsed.raised)
                => /\ ClassesOfFile(updated, p) =
                        {class_id(p, parsed.classes[i].name) : i \in 1..Len(parsed.classes)}
                   /\ FunctionsOfFile(updated, p) =
                        {class_id(p, parsed.functions[i].name) : i \in 1..Len(parsed.functions)}
                   /\ {e[2] : e \in {x \in DOMAIN updated.imports : x[1] = p}} =
                        {resolve_import(fs, imports[i].module_path) : i \in 1..Len(imports)}
                            \ {"None"}
            /\ ~Exists(fs, p) => NoRecordOf(updated, p)
            /\ (Exists(fs, p) /\ Suffix[p] \notin RegisteredSuffixes) => updated = graph

Ring == {<<"a.py", "b.py">>, <<"b.py", "c.py">>, <<"c.py", "a.py">>}

\* No file reaches itself along IMPORTS edges.
Acyclic(g) == \A k \in 1..Cardinality(QueryFiles) :
                \A w \in WalksOfLength(g, k) : w[1] # w[Len(w)]

Range(seq) == {seq[i] : i \in 1..Len(seq)}

\* C6: on the ring a -> b -> c -> a find_circular_dependencies returns exactly
\* one cycle, which holds the three paths; on an acyclic relation it returns
\* none.
C6_OneCyclePerRing ==
    cycles.ran =>
        /\ DOMAIN graph.imports = Ring
            => /\ Cardinality(cycles.rows) = 1
               /\ \A row \in cycles.rows : QueryFiles \subseteq Range(row)
        /\ Acyclic(graph) => cycles.rows = {}

(***************************************************************************)
(* Properties of the SRP rule and its scorers (SpecSRP).                   *)
(***************************************************************************)
\* C9: every violation SRPRule.analyze reports for a type goes with a
\* composite total of 0.7 or more for the type, with severity critical from
\* 0.9, high from 0.8 and medium from 0.7; a type whose total is below 0.7
\* is not reported.
C9_ReportedIffCompositeViolation ==
    srpReported.ran =>
        LET total == ScoreOf(srpClass).total_score
            reported == srpReported.violations
        IN  /\ \A i \in 1..Len(reported) :
                /\ total >= 700
                /\ reported[i].severity =
                        IF total >= 900 THEN "critical"
                        ELSE IF total >= 800 THEN "high" ELSE "medium"
            /\ total < 700 => reported = <<>>

\* C10: a type with 4 concern domains, 4 verb categories (however its methods
\* are spread over them), 3 semantic clusters and 4 times the tolerance in
\* methods scores 0.8 or more and is a violation.
C10_DiverseTypeIsViolation ==
    (/\ srpScore.ran
     /\ Cardinality(DOMAIN srpClass.concert_counts) = 4
     /\ Cardinality(DOMAIN srpClass.category_counts) = 4
     /\ srpClass.num_clusters = 3
     /\ srpClass.method_count = 4 * get_tolerance_for_path(srpClass.file_path))
        => /\ srpScore.score.total_score >= 800
           /\ is_violation(srpScore.score)

\* the ratio score of a method count under a tolerance, in thousandths:
\* ratio <= 1.0 -> 0.0; ratio <= 2.0 -> 0.3; else min(0.6 + 0.1 * (ratio - 2.0), 1.0)
RatioScore(method_count, tolerance) ==
    IF method_count <= tolerance THEN 0
    ELSE IF method_count <= 2 * tolerance THEN 300
    ELSE Min(600 + (Thousandths(method_count, tolerance) - 2000) \div 10, 1000)

\* 0.4 * semantic + 0.3 * dependency + 0.2 * naming + 0.1 * ratio_score, plus
\* 0.2 with a layer violation, before the clamp
WeightedSum(score) ==
    (400 * score.semantic_score + 300 * score.dependency_score
        + 200 * score.naming_score + 100 * score.method_count_score) \div 1000
    + (IF score.layer_violations # <<>> THEN 200 ELSE 0)

\* C21: the total calculate_score returns is the weighted sum of the four
\* signals, plus 0.2 with a layer violation, clamped to [0, 1]; it lies in
\* [0, 1] for every type, negative naming signals included, and is 0.0 when
\* the three diversity signals are 0, method_count <= tolerance and no layer
\* is violated.
C21_TotalIsClampedWeightedSum ==
    srpScore.ran =>
        LET score == srpScore.score
            tolerance == get_tolerance_for_path(srpClass.file_path)
        IN  /\ score.method_count_score = RatioScore(score.num_methods, tolerance)
            /\ score.total_score = Min(Max(WeightedSum(score), 0), 1000)
            /\ score.total_score \in 0..1000
            /\ (/\ score.semantic_score = 0
                /\ score.dependency_score = 0
                /\ score.naming_score = 0
                /\ score.num_methods <= tolerance
                /\ score.layer_violations = <<>>) => score.total_score = 0

\* C21 witness: a scored type whose weighted sum is below 0 (its naming signal
\* is negative), so that the clamp has acted.
C21_Witness ==
    /\ srpScore.ran
    /\ WeightedSum(srpScore.score) < 0
    /\ srpScore.score.total_score = 0

\* C22: the naming diversity calculate_concert_diversity returns for the
\* type's distribution of methods over verb categories lies in [0.0, 1.0], is
\* 0.0 with at most one category and above 0.0 with two categories or more.
C22_NamingDiversityBounded ==
    srpScore.ran =>
        LET naming == srpScore.score.naming_score
            num_categories == Cardinality(DOMAIN srpClass.category_counts)
        IN  /\ naming \in 0..1000
            /\ num_categories <= 1 => naming = 0
            /\ num_categories >= 2 => naming > 0

\* C23: when the encoder fails while the semantic signal of the type is
\* computed, calculate_semantic_diversity returns 0.0 and raises nothing.
C23_EncoderFailureGivesZero ==
    (srpSemantic.ran /\ srpSemantic.encoder_failed)
        => /\ ~srpSemantic.raised
           /\ srpSemantic.value = 0

(***************************************************************************)
(* Properties of the threshold rules (SpecThreshold).                      *)
(***************************************************************************)
\* the items ThresholdRule.analyze has read, and the metric of the i-th
ThresholdItems == Get(thrContext, thrRule.context_key, <<>>)
ThresholdMetric(i) == Get(ThresholdItems[i], thrRule.metric_key, 0)

\* C11: ThresholdRule.analyze reports an item exactly when its metric is
\* greater than the threshold t, as critical above 3t, high above 2t up to
\* 3t and medium above t up to 2t, never as low; with t = 10 a metric of 11
\* is medium and one of 31 critical.
C11_ReportedIffAboveThreshold ==
    thrReported.ran =>
        LET t == thrRule.threshold
            reported == thrReported.violations
        IN  /\ \A i \in 1..Len(ThresholdItems) :
                (ThresholdMetric(i) > t)
                    <=> (\E j \in 1..Len(reported) : reported[j].line_number = i)
            /\ \A j \in 1..Len(reported) :
                LET metric == ThresholdMetric(reported[j].line_number)
                IN  /\ reported[j].severity =
                            IF metric > 3 * t THEN "critical"
                            ELSE IF metric > 2 * t THEN "high"
                            ELSE "medium"
                    /\ reported[j].severity # "low"
                    /\ (t = 10 /\ metric = 11) => reported[j].severity = "medium"
                    /\ (t = 10 /\ metric = 31) => reported[j].severity = "critical"

\* C11 witness: with threshold 10 the complexity rule has reported a function
\* of complexity 11 as medium and one of complexity 31 as critical.
C11_Witness ==
    /\ thrReported.ran
    /\ thrRule = ComplexityRule(10)
    /\ \E j, k \in 1..Len(thrReported.violations) :
        /\ ThresholdMetric(thrReported.violations[j].line_number) = 11
        /\ thrReported.violations[j].severity = "medium"
        /\ ThresholdMetric(thrReported.violations[k].line_number) = 31
        /\ thrReported.violations[k].severity = "critical"

(***************************************************************************)
(* More properties of the ledger (SpecLedger).                             *)
(***************************************************************************)
\* the rows of a table with the hash of a code
RowsWithHashOf(table, code) ==
    {i \in 1..Len(table) : table[i].snippet_hash = SnippetHash[code]}

\* C12: is_ignored(code) is true exactly when the ledger holds a suppression
\* with the hash of code whose invalidated flag is false.
C12_IsIgnoredIffActiveSuppression ==
    \A code \in LedgerCodes :
        is_ignored(code)
            <=> (\E i \in RowsWithHashOf(ignores, code) : ~ignores[i].invalidated)

\* C12 witness: one code is ignored while another, whose only suppression
\* is invalidated, is not.
C12_Witness ==
    \E code, other \in LedgerCodes :
        /\ is_ignored(code)
        /\ ~is_ignored(other)
        /\ \E i \in RowsWithHashOf(ignores, other) : ignores[i].invalidated

\* C13: get_cached_violation(code) is None when no record has the hash of
\* code, and else the record stored last among those with that hash.
C13_CachedViolationIsMostRecent ==
    \A code \in LedgerCodes :
        LET stored == RowsWithHashOf(violations, code)
            found == get_cached_violation(code)
        IN  /\ stored = {} => found = None
            /\ stored # {} =>
                /\ \E i \in stored : found = violations[i]
                /\ \A i \in stored : violations[i].timestamp <= found.timestamp

\* C14: store_violation adds one record and leaves the stored ones in place,
\* also when one has the same snippet_hash; no ledger operation changes a
\* field of a stored violation other than ignored; and a suppressed violation
\* is still found by its hash.
C14_ViolationsAppendOnly ==
    [][/\ StoreViolation => Len(violations') = Len(violations) + 1
       /\ Len(violations') >= Len(violations)
       /\ \A i \in 1..Len(violations) :
            /\ [violations'[i] EXCEPT !.ignored = violations[i].ignored] = violations[i]
            /\ violations[i].ignored =>
                get_violation_by_hash(violations', violations[i].snippet_hash) # None]_vars

\* C14 witness: two records share a snippet_hash, the first of them is
\* suppressed, and the hash still finds a record.
C14_Witness ==
    /\ Len(violations) = 2
    /\ violations[1].snippet_hash = violations[2].snippet_hash
    /\ violations[1].id # violations[2].id
    /\ violations[1].ignored
    /\ get_violation_by_hash(violations, violations[1].snippet_hash) # None

\* C15: a suppression whose invalidated flag is true keeps it true in every
\* later state, whatever is stored, ignored or edited afterwards.
C15_InvalidatedStaysInvalidated ==
    [][\A i \in 1..Len(ignores) :
            ignores[i].invalidated
                => /\ i <= Len(ignores')
                   /\ ignores'[i].id = ignores[i].id
                   /\ ignores'[i].invalidated]_vars

\* C15 witness: a suppression is invalidated and a later suppression of the
\* same code shape is active.
C15_Witness ==
    \E i, j \in 1..Len(ignores) :
        /\ i < j
        /\ ignores[i].snippet_hash = ignores[j].snippet_hash
        /\ ignores[i].invalidated
        /\ ~ignores[j].invalidated

\* the calls of invalidate_if_changed whose two codes have one hash
SameHashPairs ==
    {pair \in LedgerCodes \X LedgerCodes : SnippetHash[pair[1]] = SnippetHash[pair[2]]}

\* C16: invalidate_if_changed(old_code, new_code) with equal hashes leaves
\* both tables as they were, so an active suppression stays active.
C16_SameHashChangesNothing ==
    [][(\E pair \in SameHashPairs : invalidate_if_changed(pair[1], pair[2]))
            => /\ ignores' = ignores
               /\ violations' = violations
               /\ \A code \in LedgerCodes : is_ignored(code) => is_ignored(code)']_vars

\* C16 witness: a code is suppressed and another text has the same hash, so
\* that the call with these two is a call on an active suppression.
C16_Witness ==
    \E old_code, new_code \in LedgerCodes :
        /\ old_code # new_code
        /\ SnippetHash[old_code] = SnippetHash[new_code]
        /\ is_ignored(old_code)

(***************************************************************************)
(* More properties of the graph store and the scan (SpecGraph).            *)
(***************************************************************************)
\* nodes a caller may hand to the store
SomeFileNodes ==
    {[path |-> path, language |-> "python", lines_of_code |-> loc] :
        path \in {"a.py", "b.py"}, loc \in {1, 3}}
SomeClassNodes ==
    {[name |-> name, file_path |-> path, start_line |-> 2, end_line |-> end_line,
      is_abstract |-> FALSE, method_count |-> 0] :
        name \in {"Service", "Helper"}, path \in {"a.py", "b.py"}, end_line \in {3, 4}}
SomeFunctionNodes ==
    {[name |-> "run", file_path |-> path, start_line |-> 3, end_line |-> 3,
      complexity |-> 1, parent_class |-> parent] :
        path \in {"a.py", "b.py"}, parent \in {NoParent, "Service"}}

\* C17: each upsert applied a second time with the same input leaves the
\* graph the first application gave, and so does replaying all the upserts
\* of a file.
C17_UpsertsIdempotent ==
    /\ \A file_node \in SomeFileNodes :
            add_file(add_file(graph, file_node), file_node) = add_file(graph, file_node)
    /\ \A class_node \in SomeClassNodes :
            add_class(add_class(graph, class_node), class_node) = add_class(graph, class_node)
    /\ \A function_node \in SomeFunctionNodes :
            add_function(add_function(graph, function_node).graph, function_node).graph
                = add_function(graph, function_node).graph
    /\ \A from_file, to_module \in {"a.py", "b.py"} :
            add_import(add_import(graph, from_file, to_module, <<"name">>),
                       from_file, to_module, <<"name">>)
                = add_import(graph, from_file, to_module, <<"name">>)
    /\ \A p \in ProjectFiles :
            LET results == <<parse_file_worker(fs, p)>>
                once == InsertResults(graph, fs, results).graph
            IN  InsertResults(once, fs, results).graph = once

\* C17 witness: the graph holds a file with a class and an IMPORTS edge, and
\* the upserts that wrote them are applied to it again.
C17_Witness ==
    \E p \in ProjectFiles :
        LET result == parse_file_worker(fs, p)
        IN  /\ ~result.failed
            /\ result.classes # <<>>
            /\ \E e \in DOMAIN graph.imports : e[1] = p
            /\ graph = InsertResults(graph, fs, <<result>>).graph
            /\ graph # EmptyGraph

(***************************************************************************)
(* Properties of the scan taken step by step (SpecScan).                   *)
(***************************************************************************)
\* C18: during scan_project the graph is not changed before every parse
\* worker has returned its result, and it is then changed by the insert
\* loop alone, one result after the other, with no worker running.
C18_MutationsAfterAllParsed ==
    [][(graph' # graph) =>
            /\ scanPc = "inserting"
            /\ scanRunning = {}
            /\ \A i \in 1..Len(scanFiles) : scanResults[i] # NotReturned
            /\ InsertResult
            /\ scanCursor' = scanCursor + 1
            /\ scanResults' = scanResults]_vars

\* C18 witness: two files were parsed, both workers have returned, the first
\* result has been inserted and the second is next.
C18_Witness ==
    /\ scanPc = "inserting"
    /\ Len(scanFiles) = 2
    /\ scanRunning = {}
    /\ scanCursor = 2
    /\ ~scanResults[1].failed
    /\ scanFiles[1] \in DOMAIN graph.files

(***************************************************************************)
(* Properties of scan_project as a whole (SpecGraph).                      *)
(***************************************************************************)
\* the files scan_project parses
Scanned(files) == {p \in ProjectFiles : Exists(files, p) /\ Suffix[p] = ".py"}

\* the IMPORTS edges out of p
ImportsOf(g, p) == {e \in DOMAIN g.imports : e[1] = p}

\* the ids of the nodes a parse gives
ParsedIds(p, nodes) == {class_id(p, nodes[i].name) : i \in 1..Len(nodes)}

\* the modules a file imports that resolve to a file of the project
ResolvedImports(files, p) ==
    LET imports == get_imports(files[p])
    IN  {resolve_import(files, imports[i].module_path) : i \in 1..Len(imports)} \ {"None"}

C20_RescanReplacesRecords ==
    [][ScanProject =>
        \A p \in Scanned(fs) :
            LET parsed == parse_file(p, fs[p])
            IN  (p \in DOMAIN graph.files /\ ~parsed.raised) =>
                    /\ ClassesOfFile(graph', p) = ParsedIds(p, parsed.classes)
                    /\ FunctionsOfFile(graph', p) = ParsedIds(p, parsed.functions)
                    /\ {e[2] : e \in ImportsOf(graph', p)} \subseteq ResolvedImports(fs, p)]_vars

\* C27: after scan_project, whatever the order in which the files were found
\* and inserted, every parsed file A with an import that resolves to a
\* parsed file B has the IMPORTS edge A -> B.
C27_ImportEdgesWhateverTheOrder ==
    [][ScanProject =>
        \A from_file, to_module \in Scanned(fs) :
            (/\ ~parse_file(from_file, fs[from_file]).raised
             /\ ~parse_file(to_module, fs[to_module]).raised
             /\ to_module \in ResolvedImports(fs, from_file))
                => <<from_file, to_module>> \in DOMAIN graph'.imports]_vars

\* C28: every CONTAINS edge of the graph goes from a Class to a Function of
\* the same file whose parent_class is the class's name, so that a Function
\* is contained in one Class at most.  No graph the scans and updates reach
\* holds a Function node or a CONTAINS edge (NoFunctionStored): a file with a
\* method does not parse, and add_function raises before it writes, so the
\* edges this speaks of do not occur.
C28_ContainsEdgesWithinType ==
    \A e \in graph.contains :
        /\ e[1] \in DOMAIN graph.classes
        /\ e[2] \in DOMAIN graph.functions
        /\ graph.functions[e[2]].file_path = graph.classes[e[1]].file_path
        /\ graph.functions[e[2]].parent_class = graph.classes[e[1]].name
        /\ \A other \in graph.contains : other[2] = e[2] => other[1] = e[1]

NoFunctionStored == graph.contains = {} /\ DOMAIN graph.functions = {}

\* the class definitions at the top of a file, and the methods a class
\* definition holds in its body
ClassDefinitions(content) ==
    {content.children[i] : i \in {i \in 1..Len(content.children) :
                                    content.children[i].type = "class_definition"}}
MethodsDefined(class_node) ==
    UNION {{<<i, j>> : j \in {j \in 1..Len(class_node.children[i].children) :
                    class_node.children[i].children[j].type = "function_definition"}} :
            i \in {i \in 1..Len(class_node.children) : class_node.children[i].type = "block"}}

\* C29: the method_count of every class record parse_file gives equals the
\* number of its function records with that class as parent_class, and a
\* class that defines a method gets a record with method_count >= 1.
C29_MethodCountMatchesFunctions ==
    \A p \in Scanned(fs) :
        LET parsed == parse_file(p, fs[p])
        IN  /\ \A i \in 1..Len(parsed.classes) :
                    parsed.classes[i].method_count =
                        Cardinality({j \in 1..Len(parsed.functions) :
                            parsed.functions[j].parent_class = parsed.classes[i].name})
            /\ \A class_node \in ClassDefinitions(fs[p]) :
                    MethodsDefined(class_node) # {}
                        => /\ ~parsed.raised
                           /\ \E i \in 1..Len(parsed.classes) :
                                /\ parsed.classes[i].name = NameChild(class_node).text
                                /\ parsed.classes[i].method_count
                                        = Cardinality(MethodsDefined(class_node))
                                /\ parsed.classes[i].method_count >= 1

\* a write of update_file(file_path) to the graph store fails: delete_file
\* raises, or a node of the parsed content is refused
GraphWriteFails(g, files, file_path) ==
    \/ /\ ~Exists(files, file_path) \/ Suffix[file_path] \in RegisteredSuffixes
       /\ delete_file(g, file_path).raised
    \/ /\ Exists(files, file_path)
       /\ Suffix[file_path] \in RegisteredSuffixes
       /\ LET deleted == delete_file(g, file_path)
              parsed == parse_file(file_path, files[file_path])
          IN  /\ ~deleted.raised
              /\ ~parsed.raised
              /\ AddFunctions(AddClasses(add_file(deleted.graph, parsed.file_node),
                                         parsed.classes), parsed.functions).raised

\* C24: an update_file(p) during which a graph-store write fails ends with
\* the failure raised to its caller, and not with a normal return.
C24_WriteFailureSurfaced ==
    [][\A p \in ProjectFiles :
            (UpdateFile(p) /\ GraphWriteFails(graph, fs, p)) => outcome' = "raised"]_vars

\* the retries a caller makes of a failed update
MaxRetries == 3

\* update_file(file_path) called again after each call that did not return
\* normally, up to n more times
RECURSIVE RetryUpdate(_, _, _, _)
RetryUpdate(g, files, file_path, n) ==
    LET updated == update_file(g, files, file_path)
    IN  IF updated.outcome = "returned" \/ n = 0 THEN updated
        ELSE RetryUpdate(updated.graph, files, file_path, n - 1)

\* C25: when delete_file(p) fails part-way, the caller's retries of the
\* delete-then-reinsert of p come to succeed, and the graph is then the one
\* an uninterrupted delete-then-reinsert gives: p as its content parses, the
\* rest as it was, no remainder of the old p.
C25_FailedDeleteCanBeRetried ==
    \A p \in ProjectFiles :
        (/\ Exists(fs, p)
         /\ Suffix[p] \in RegisteredSuffixes
         /\ ~parse_file(p, fs[p]).raised
         /\ ClassesOfFile(graph, p) # {}
         /\ delete_file(graph, p).raised)
            => LET retried == RetryUpdate(graph, fs, p, MaxRetries)
               IN  /\ retried.outcome = "returned"
                   /\ HoldsCurrentContent(retried.graph, fs, p)
                   /\ WithoutFile(retried.graph, p) = WithoutFile(graph, p)

(***************************************************************************)
(* Properties of the watcher's handler (SpecWatcher, SpecWatcherFair).     *)
(***************************************************************************)
SleepingTasks(tasks) == {i \in 1..Len(tasks) : tasks[i] = "sleeping"}

\* C26: the accepted events of a path that arrive before the pending delay
\* ends are delivered as one callback for the path in the batch, however many
\* they are, and at most one _process_after_delay task is on its way to
\* deliver a batch at any time.
C26_EventsCoalescedPerBatch ==
    [][/\ Cardinality(SleepingTasks(wTasks')) <= 1
       /\ wBatch'.n = wBatch.n + 1 =>
            /\ DOMAIN wBatch'.calls = pending_files
            /\ \A name \in pending_files : wBatch'.calls[name] = 1
            /\ \A name \in WatchedNames :
                    (wAccepted[name] >= 1 /\ name \notin Range(wCreated))
                        => name \in DOMAIN wBatch'.calls]_vars

\* C26 witness: a batch has been delivered in which a path with two accepted
\* events or more got one callback, after an earlier task was cancelled.
C26_Witness ==
    /\ wBatch.n >= 1
    /\ \E name \in DOMAIN wBatch.calls :
            wBatch.events[name] >= 2 /\ wBatch.calls[name] = 1
    /\ \E i \in 1..Len(wTasks) : wTasks[i] = "cancelled"

\* C30: once the events have stopped, every path with an accepted event is
\* passed to the callback.
C30_AcceptedEventsDelivered ==
    \A name \in WatchedNames : (wAccepted[name] > 0) ~> (wAccepted[name] = 0)

=============================================================================
